---- MODULE Spec2Model ----
(***************************************************************************)
(* did:char replay processor (pkg/did/processor.go) over the SQLite store  *)
(* (pkg/storage) and the CHAR ballot log (pkg/char).                       *)
(*                                                                         *)
(* Two independent processors "P" and "Q" replay one ballot log into their *)
(* own stores.  The ballot log is fixed once a ballot has been decided; a  *)
(* ballot's payload is chosen when the first processor fetches it.         *)
(***************************************************************************)
EXTENDS Integers, Sequences, FiniteSets, TLC

VARIABLES
    log,      \* decided ballots: log[n+1] is the decision roll of ballot n
    omit,     \* ballot missing from Q's view of the log (-1: none)
    store,    \* store[p] = [dids, ops, synced]: the three SQLite tables
    loop,     \* loop[p] = [next, remaining]: SyncFromBallot's loop position
    result,   \* result[p] = [ballot, err]: what the last ProcessBallot returned
    keyFile,  \* keyFile[p]: the key file on the disk of node p
    call,     \* call[p]: the authoring call in progress on node p
    wire      \* wire = [fn, in, out]: one call of a function of bytes

vars == <<log, omit, store, loop, result, keyFile, call, wire>>

\* ------------------------------------------------------------------ bounds
MaxBallot == 3      \* ballots 0 .. MaxBallot-1 are decided, later ones are not
MaxBatch == 2       \* largest maxBallots handed to SyncFromBallot
MaxItems == 2       \* most keys, and most services, a stored document holds
MaxBytes == 5       \* longest ballot data handed to stripWrappers, in bytes
MaxReveals == 2     \* most controller reveals in one threshold UPDATE
MaxIndex == 7       \* largest index a Merkle proof claims (the tree has 4 leaves)

Procs == {"P", "Q"}
\* DID suffixes; a string that may be a suffix or a whole DID is a tuple of
\* its parts.
DIDs == {<<"d1">>}
Ballots == 0 .. (MaxBallot - 1)

\* ------------------------------------------------- hashing and base64url
\* SHA-256 over the model's small value space: a bijection of 0..30, so it
\* is collision free and never the identity on the values used.
Hash(x) == (7 * x + 3) % 31

\* A base64url string is either well formed (it decodes to bytes n) or not.
B64(n) == <<"b64", n>>
BadB64 == <<"bad">>
Base64URLDecode(s) ==
    IF s[1] = "b64" THEN [ok |-> TRUE, bytes |-> s[2]]
    ELSE [ok |-> FALSE, bytes |-> 0]
HashToBase64URL(bytes) == B64(Hash(bytes))

\* A key pair is a number k; JWKBytes(k) is json.Marshal of its public JWK.
Keys == {1, 2, 3}
JWKBytes(k) == k

\* GenerateCommitmentFromJWK: reveal = H(jwk), commitment = H(reveal).
RevealOf(k) == HashToBase64URL(JWKBytes(k))
CommitOf(k) == HashToBase64URL(Base64URLDecode(RevealOf(k)).bytes)

\* VerifyReveal(revealValue, expectedCommitment)
VerifyRevealNoCheck(revealValue, expectedCommitment) ==
    Base64URLDecode(revealValue).ok
VerifyReveal(revealValue, expectedCommitment) ==
    LET dec == Base64URLDecode(revealValue) IN
    IF ~dec.ok THEN FALSE
    ELSE HashToBase64URL(dec.bytes) = expectedCommitment

\* VerifyKeyMatchesReveal(jwk, revealValue): nil error iff H(jwk) = reveal
VerifyKeyMatchesRevealNoCheck(k, revealValue) == TRUE
VerifyKeyMatchesReveal(k, revealValue) ==
    HashToBase64URL(JWKBytes(k)) = revealValue

\* ------------------------------------------------------------- documents
FilterOut(seq, id) == SelectSeq(seq, LAMBDA x : x # id)

NewDocument(did) ==
    [id |-> did, publicKeys |-> <<>>, authentication |-> <<>>, services |-> <<>>]
AddPublicKey(d, pk) == [d EXCEPT !.publicKeys = Append(@, pk)]
AddService(d, svc) == [d EXCEPT !.services = Append(@, svc)]
RemovePublicKey(d, keyID) ==
    [d EXCEPT !.publicKeys = FilterOut(@, keyID),
              !.authentication = FilterOut(@, keyID)]
RemoveService(d, serviceID) == [d EXCEPT !.services = FilterOut(@, serviceID)]

\* One patch of a delta: its action and the item it names.
PatchActionAddPublicKeys == "add-public-keys"
PatchActionRemovePublicKeys == "remove-public-keys"
PatchActionAddServices == "add-services"
PatchActionRemoveServices == "remove-services"

\* The patch loop of processUpdate: all four actions.
ApplyPatch(d, patch) ==
    CASE patch.action = PatchActionAddPublicKeys -> AddPublicKey(d, patch.item)
      [] patch.action = PatchActionRemovePublicKeys -> RemovePublicKey(d, patch.item)
      [] patch.action = PatchActionAddServices -> AddService(d, patch.item)
      [] patch.action = PatchActionRemoveServices -> RemoveService(d, patch.item)
      [] OTHER -> d

RECURSIVE ApplyPatches(_, _)
ApplyPatches(d, patches) ==
    IF patches = <<>> THEN d
    ELSE ApplyPatches(ApplyPatch(d, Head(patches)), Tail(patches))

\* The patch loop of processRecover: only the two add actions.
ApplyRecoverPatch(d, patch) ==
    CASE patch.action = PatchActionAddPublicKeys -> AddPublicKey(d, patch.item)
      [] patch.action = PatchActionAddServices -> AddService(d, patch.item)
      [] OTHER -> d

RECURSIVE ApplyRecoverPatches(_, _)
ApplyRecoverPatches(d, patches) ==
    IF patches = <<>> THEN d
    ELSE ApplyRecoverPatches(ApplyRecoverPatch(d, Head(patches)), Tail(patches))

\* crypto.HashToBase64URL(json.Marshal(delta)): the hash of a delta is
\* modelled by the delta itself under a tag (an injective digest).
DeltaHash(delta) == <<"dh", delta>>

\* ------------------------------------------------------------------ DIDs
\* FormatDID / ParseDID: "did:char:" + suffix and back.
FormatDID(suffix) == <<"did:char:">> \o suffix
ParseDID(did) == Tail(did)
\* GenerateDIDSuffix: the hash of the JSON of the initial state, modelled by
\* the initial state itself under a tag (an injective digest).
GenerateDIDSuffix(initialState) == <<"sha256", initialState>>

\* ------------------------------------------------- operations (JSON bodies)
OperationTypeCreate == "create"
OperationTypeUpdate == "update"
OperationTypeRecover == "recover"
OperationTypeDeactivate == "deactivate"

\* A compact JWS: the payload it carries and the key that made the signature.
\* verifier.Verify succeeds iff the signature was made by the private half of
\* the key the payload names (signer = 0: a malformed JWS).
JWS(payload, signer) == [payload |-> payload, signer |-> signer]

Delta(patches, updateCommitment) ==
    [patches |-> patches, updateCommitment |-> updateCommitment]

CreateOperation(initialDocument, updateCommitment, recoveryCommitment) ==
    [jsonOk |-> TRUE, initialDocument |-> initialDocument,
     updateCommitment |-> updateCommitment,
     recoveryCommitment |-> recoveryCommitment]

UpdateOperation(revealValue, signedData, delta) ==
    [jsonOk |-> TRUE, revealValue |-> revealValue, signedData |-> signedData,
     delta |-> delta]

RecoverOperation(revealValue, signedData, delta) ==
    [jsonOk |-> TRUE, revealValue |-> revealValue, signedData |-> signedData,
     delta |-> delta]

DeactivateOperation(revealValue, signedData) ==
    [jsonOk |-> TRUE, revealValue |-> revealValue, signedData |-> signedData]

\* Operation bytes json.Unmarshal rejects.
BadJSON == [jsonOk |-> FALSE]

\* ------------------------------------------------ decision rolls (ballots)
PayloadVersion == 1

\* What GetReferendumDecisionRoll returns for a ballot and what DecodePayload
\* makes of its data: found, the length class of the hex data ("none": nil
\* roll or "", "short": at most 8 hex characters, "long"), whether the
\* payload decodes, and the decoded version, type byte, suffix and JSON.
Roll(found, hex, decodes, version, opType, didSuffix, op) ==
    [found |-> found, hex |-> hex, decodes |-> decodes, version |-> version,
     opType |-> opType, didSuffix |-> didSuffix, op |-> op]

NotFound == Roll(FALSE, "none", FALSE, 0, 0, <<>>, BadJSON)
EmptyRoll == Roll(TRUE, "none", FALSE, 0, 0, <<>>, BadJSON)
ShortRoll == Roll(TRUE, "short", FALSE, 0, 0, <<>>, BadJSON)
Garbage == Roll(TRUE, "long", FALSE, 0, 0, <<>>, BadJSON)
WrongVersion == Roll(TRUE, "long", TRUE, 2, 1, <<"d1">>, BadJSON)
\* Data that opens like an envelope whose length field is cut off ("truncated":
\* more than 8 hex characters, e.g. 0000fe0000).
TruncatedEnvelope == Roll(TRUE, "truncated", FALSE, 0, 0, <<>>, BadJSON)
\* An envelope around zero bytes that is longer than 8 hex characters (e.g.
\* 0000fd0000): stripWrappers leaves "", which DecodePayload cannot read.
EmptyEnvelope == Roll(TRUE, "envelope", FALSE, 0, 0, <<>>, BadJSON)
UnknownOp == Roll(TRUE, "long", TRUE, PayloadVersion, 9, <<"d1">>, BadJSON)
OpRoll(opType, didSuffix, op) ==
    Roll(TRUE, "long", TRUE, PayloadVersion, opType, didSuffix, op)

\* Operations as the authoring helpers build them (CreateDID, UpdateDID,
\* RecoverDID, DeactivateDID): key k reveals itself, signs, and commits to k2.
Svc(id) == [action |-> PatchActionAddServices, item |-> id]
DelSvc(id) == [action |-> PatchActionRemoveServices, item |-> id]
Key(id) == [action |-> PatchActionAddPublicKeys, item |-> id]

AuthoredCreate(suffix, ku, kr) ==
    OpRoll(1, suffix,
           CreateOperation(AddPublicKey(NewDocument(FormatDID(suffix)), "key-1"),
                           CommitOf(ku), CommitOf(kr)))

AuthoredUpdateHashesOldCommitment(suffix, k, k2, patches) ==
    LET delta == Delta(patches, CommitOf(k2)) IN
    OpRoll(2, suffix,
           UpdateOperation(RevealOf(k),
                           JWS([key |-> k,
                                deltaHash |-> DeltaHash(Delta(patches, CommitOf(k)))],
                               k),
                           delta))
AuthoredUpdate(suffix, k, k2, patches) ==
    LET delta == Delta(patches, CommitOf(k2)) IN
    OpRoll(2, suffix,
           UpdateOperation(RevealOf(k),
                           JWS([key |-> k, deltaHash |-> DeltaHash(delta)], k),
                           delta))

AuthoredRecover(suffix, k, ku2, kr2, patches) ==
    LET delta == Delta(patches, CommitOf(ku2)) IN
    OpRoll(3, suffix,
           RecoverOperation(RevealOf(k),
                            JWS([key |-> k, deltaHash |-> DeltaHash(delta),
                                 recoveryCommitment |-> CommitOf(kr2)], k),
                            delta))

AuthoredDeactivate(suffix, k) ==
    OpRoll(4, suffix,
           DeactivateOperation(RevealOf(k),
                               JWS([key |-> k, didSuffix |-> suffix], k)))

\* An UPDATE signed by a key other than the one its signed data names.
WrongSigner(roll, k) == [roll EXCEPT !.op.signedData.signer = k]

\* The rolls the ordering service may decide for a ballot.
Rolls ==
    {NotFound, EmptyRoll, Garbage, UnknownOp}
    \cup {AuthoredCreate(s, 1, 2) : s \in DIDs}
    \cup {AuthoredUpdate(s, 1, 3, <<Svc("s1")>>) : s \in DIDs}
    \cup {AuthoredUpdate(s, 1, 3, <<Key("key-2")>>) : s \in DIDs}
    \cup {AuthoredUpdate(s, 1, 1, <<Svc("s1")>>) : s \in DIDs}
    \cup {AuthoredUpdate(s, 3, 1, <<DelSvc("s1")>>) : s \in DIDs}
    \cup {AuthoredUpdate(s, 2, 3, <<Svc("s2")>>) : s \in DIDs}
    \cup {WrongSigner(AuthoredUpdate(s, 1, 3, <<Svc("s2")>>), 2) : s \in DIDs}
    \cup {AuthoredRecover(s, 2, 1, 2, <<Key("key-3")>>) : s \in DIDs}
    \cup {AuthoredDeactivate(s, 2) : s \in DIDs}

\* A payload that decodes and carries another version byte.
VersionTagged(roll, version) == [roll EXCEPT !.version = version]

\* Ballots that hold no version-1 DID payload.
EnvelopeRolls ==
    {ShortRoll, EmptyEnvelope, WrongVersion, TruncatedEnvelope}
    \cup {VersionTagged(AuthoredCreate(s, 1, 2), 2) : s \in DIDs}
    \cup {VersionTagged(AuthoredUpdate(s, 1, 3, <<Svc("s1")>>), 0) : s \in DIDs}

\* Operations no authoring helper builds: each breaks one of the checks of
\* processUpdate / processRecover / processDeactivate, or repeats a CREATE.
\* The signed data names another key than the reveal, and that key signed.
KeySwapped(roll, k) ==
    [roll EXCEPT !.op.signedData.payload.key = k, !.op.signedData.signer = k]
\* The delta was replaced after signing.
DeltaSwapped(roll, delta) == [roll EXCEPT !.op.delta = delta]
\* The signed data of a DEACTIVATE names didSuffix.
NamingSuffix(roll, didSuffix) ==
    [roll EXCEPT !.op.signedData.payload.didSuffix = didSuffix]

ForgedRolls ==
    {AuthoredCreate(s, 3, 3) : s \in DIDs}
    \cup {AuthoredDeactivate(s, 1) : s \in DIDs}
    \cup {AuthoredRecover(s, 1, 3, 2, <<Key("key-3")>>) : s \in DIDs}
    \cup {KeySwapped(AuthoredUpdate(s, 1, 3, <<Svc("s2")>>), 2) : s \in DIDs}
    \cup {KeySwapped(AuthoredDeactivate(s, 2), 3) : s \in DIDs}
    \cup {DeltaSwapped(AuthoredUpdate(s, 1, 3, <<Svc("s1")>>),
                       Delta(<<Svc("s2")>>, CommitOf(3))) : s \in DIDs}
    \cup {DeltaSwapped(AuthoredUpdate(s, 1, 3, <<Svc("s1")>>),
                       Delta(<<Svc("s1")>>, CommitOf(2))) : s \in DIDs}
    \cup {NamingSuffix(AuthoredDeactivate(s, 2), <<"d2">>) : s \in DIDs}
    \cup {NamingSuffix(AuthoredDeactivate(s, 2), FormatDID(s)) : s \in DIDs}

\* ------------------------------------------------------------------ store
\* The dids table is a function from DID to record, the operations table a
\* set of rows, sync_state the value under "last_synced_ballot" (-1: no row).
EmptyStore == [dids |-> <<>>, ops |-> {}, synced |-> -1]

DIDExists(dids, did) == did \in DOMAIN dids

DIDRecord(status, document, uc, rc, created, last) ==
    [status |-> status, document |-> document, updateCommitment |-> uc,
     recoveryCommitment |-> rc, createdAtBallot |-> created,
     lastOperationBallot |-> last]

\* A SaveDID without the did key: the statement replaces the whole table.
SaveDIDReplacesTable(dids, did, record) == did :> record
\* SaveDID: INSERT ... ON CONFLICT(did) DO UPDATE, which leaves
\* created_at_ballot of an existing row alone.
SaveDID(dids, did, record) ==
    IF DIDExists(dids, did)
    THEN [dids EXCEPT ![did] =
            [record EXCEPT !.createdAtBallot = dids[did].createdAtBallot]]
    ELSE dids @@ (did :> record)

\* The processor leaves ID unset (0); the table assigns it on insert.
OperationRecord(did, ballot, type, data) ==
    [id |-> 0, did |-> did, ballotNumber |-> ballot, operationType |-> type,
     operationData |-> data]

\* SaveOperation: a plain INSERT; UNIQUE(ballot_number) rejects a second row
\* for the same ballot.  The row gets the next AUTOINCREMENT id (rows are
\* never deleted).
SaveOperationNeverFails(ops, record) == FALSE
SaveOperationFails(ops, record) ==
    \E o \in ops : o.ballotNumber = record.ballotNumber
SaveOperation(ops, record) ==
    ops \cup {[record EXCEPT !.id = Cardinality(ops) + 1]}

\* Store calls that can return an error in one step (an I/O error, or the
\* process dying at that call); "none": every call succeeds.
StoreFaults == {"none", "SaveDID", "SaveOperation", "SetSyncState"}

\* --------------------------------------------------------------- processor
Outcome(dids, ops, err) == [dids |-> dids, ops |-> ops, err |-> err]

\* Errors that come from checking an operation against the DID's state.
ValidationErrors ==
    {"reveal value does not match commitment",
     "reveal value does not match recovery commitment",
     "signature verification failed",
     "update key does not match reveal",
     "recovery key does not match reveal",
     "delta hash mismatch",
     "DID suffix mismatch in signed data"}
\* Errors that come from decoding the operation.
DecodeErrors == {"failed to unmarshal operation", "unknown operation type"}
StoreError == "store error"
\* A Go runtime panic (slice bounds out of range): the process dies.
Panic == "panic"
RPCError == "failed to get decision roll"

\* verifyUpdateSignature / verifyRecoverSignature / verifyDeactivateSignature:
\* the verifier is built from the key inside the payload.
VerifySignature(signedData) == signedData.signer = signedData.payload.key

\* The two writes that end every process* function: SaveDID, then
\* SaveOperation, each returning on its own error.
SaveBoth(st, did, record, opRecord, fault) ==
    IF fault = "SaveDID" THEN Outcome(st.dids, st.ops, StoreError)
    ELSE LET saved == SaveDID(st.dids, did, record) IN
         IF fault = "SaveOperation" \/ SaveOperationFails(st.ops, opRecord)
         THEN Outcome(saved, st.ops, StoreError)
         ELSE Outcome(saved, SaveOperation(st.ops, opRecord), "nil")

processCreateOverwrites(st, did, op, ballotNumber, fault) ==
    IF ~op.jsonOk THEN Outcome(st.dids, st.ops, "failed to unmarshal operation")
    ELSE SaveBoth(st, did,
                  DIDRecord("active", op.initialDocument, op.updateCommitment,
                            op.recoveryCommitment, ballotNumber, ballotNumber),
                  OperationRecord(did, ballotNumber, OperationTypeCreate, op),
                  fault)
processCreate(st, did, op, ballotNumber, fault) ==
    IF ~op.jsonOk THEN Outcome(st.dids, st.ops, "failed to unmarshal operation")
    ELSE IF DIDExists(st.dids, did) THEN Outcome(st.dids, st.ops, "nil")
    ELSE SaveBoth(st, did,
                  DIDRecord("active", op.initialDocument, op.updateCommitment,
                            op.recoveryCommitment, ballotNumber, ballotNumber),
                  OperationRecord(did, ballotNumber, OperationTypeCreate, op),
                  fault)

processUpdateSavesUnverified(st, did, op, ballotNumber, fault) ==
    IF ~op.jsonOk THEN Outcome(st.dids, st.ops, "failed to unmarshal operation")
    ELSE IF ~DIDExists(st.dids, did) THEN Outcome(st.dids, st.ops, "nil")
    ELSE IF st.dids[did].status # "active" THEN Outcome(st.dids, st.ops, "nil")
    ELSE IF ~VerifyReveal(op.revealValue, st.dids[did].updateCommitment)
         THEN Outcome(st.dids, st.ops, "reveal value does not match commitment")
    ELSE LET didRecord == st.dids[did]
             saved == SaveBoth(st, did,
                  [didRecord EXCEPT
                     !.document = ApplyPatches(didRecord.document, op.delta.patches),
                     !.updateCommitment = op.delta.updateCommitment,
                     !.lastOperationBallot = ballotNumber],
                  OperationRecord(did, ballotNumber, OperationTypeUpdate, op),
                  fault)
         IN IF ~VerifySignature(op.signedData)
                 THEN Outcome(saved.dids, st.ops, "signature verification failed")
            ELSE IF ~VerifyKeyMatchesReveal(op.signedData.payload.key, op.revealValue)
                 THEN Outcome(st.dids, st.ops, "update key does not match reveal")
            ELSE IF DeltaHash(op.delta) # op.signedData.payload.deltaHash
                 THEN Outcome(st.dids, st.ops, "delta hash mismatch")
            ELSE saved
processUpdateSkipsDeltaHash(st, did, op, ballotNumber, fault) ==
    IF ~op.jsonOk THEN Outcome(st.dids, st.ops, "failed to unmarshal operation")
    ELSE IF ~DIDExists(st.dids, did) THEN Outcome(st.dids, st.ops, "nil")
    ELSE IF st.dids[did].status # "active" THEN Outcome(st.dids, st.ops, "nil")
    ELSE IF ~VerifyReveal(op.revealValue, st.dids[did].updateCommitment)
         THEN Outcome(st.dids, st.ops, "reveal value does not match commitment")
    ELSE IF ~VerifySignature(op.signedData)
         THEN Outcome(st.dids, st.ops, "signature verification failed")
    ELSE IF ~VerifyKeyMatchesReveal(op.signedData.payload.key, op.revealValue)
         THEN Outcome(st.dids, st.ops, "update key does not match reveal")
    ELSE LET didRecord == st.dids[did] IN
         SaveBoth(st, did,
                  [didRecord EXCEPT
                     !.document = ApplyPatches(didRecord.document, op.delta.patches),
                     !.updateCommitment = op.delta.updateCommitment,
                     !.lastOperationBallot = ballotNumber],
                  OperationRecord(did, ballotNumber, OperationTypeUpdate, op),
                  fault)
processUpdateKeepsCommitment(st, did, op, ballotNumber, fault) ==
    IF ~op.jsonOk THEN Outcome(st.dids, st.ops, "failed to unmarshal operation")
    ELSE IF ~DIDExists(st.dids, did) THEN Outcome(st.dids, st.ops, "nil")
    ELSE IF st.dids[did].status # "active" THEN Outcome(st.dids, st.ops, "nil")
    ELSE IF ~VerifyReveal(op.revealValue, st.dids[did].updateCommitment)
         THEN Outcome(st.dids, st.ops, "reveal value does not match commitment")
    ELSE IF ~VerifySignature(op.signedData)
         THEN Outcome(st.dids, st.ops, "signature verification failed")
    ELSE IF ~VerifyKeyMatchesReveal(op.signedData.payload.key, op.revealValue)
         THEN Outcome(st.dids, st.ops, "update key does not match reveal")
    ELSE IF DeltaHash(op.delta) # op.signedData.payload.deltaHash
         THEN Outcome(st.dids, st.ops, "delta hash mismatch")
    ELSE LET didRecord == st.dids[did] IN
         SaveBoth(st, did,
                  [didRecord EXCEPT
                     !.document = ApplyPatches(didRecord.document, op.delta.patches),
                     !.lastOperationBallot = ballotNumber],
                  OperationRecord(did, ballotNumber, OperationTypeUpdate, op),
                  fault)
processUpdate(st, did, op, ballotNumber, fault) ==
    IF ~op.jsonOk THEN Outcome(st.dids, st.ops, "failed to unmarshal operation")
    ELSE IF ~DIDExists(st.dids, did) THEN Outcome(st.dids, st.ops, "nil")
    ELSE IF st.dids[did].status # "active" THEN Outcome(st.dids, st.ops, "nil")
    ELSE IF ~VerifyReveal(op.revealValue, st.dids[did].updateCommitment)
         THEN Outcome(st.dids, st.ops, "reveal value does not match commitment")
    ELSE IF ~VerifySignature(op.signedData)
         THEN Outcome(st.dids, st.ops, "signature verification failed")
    ELSE IF ~VerifyKeyMatchesReveal(op.signedData.payload.key, op.revealValue)
         THEN Outcome(st.dids, st.ops, "update key does not match reveal")
    ELSE IF DeltaHash(op.delta) # op.signedData.payload.deltaHash
         THEN Outcome(st.dids, st.ops, "delta hash mismatch")
    ELSE LET didRecord == st.dids[did] IN
         SaveBoth(st, did,
                  [didRecord EXCEPT
                     !.document = ApplyPatches(didRecord.document, op.delta.patches),
                     !.updateCommitment = op.delta.updateCommitment,
                     !.lastOperationBallot = ballotNumber],
                  OperationRecord(did, ballotNumber, OperationTypeUpdate, op),
                  fault)

processRecoverIgnoresStatus(st, did, op, ballotNumber, fault) ==
    IF ~op.jsonOk THEN Outcome(st.dids, st.ops, "failed to unmarshal operation")
    ELSE IF ~DIDExists(st.dids, did) THEN Outcome(st.dids, st.ops, "nil")
    ELSE IF ~VerifyReveal(op.revealValue, st.dids[did].recoveryCommitment)
         THEN Outcome(st.dids, st.ops, "reveal value does not match recovery commitment")
    ELSE IF ~VerifySignature(op.signedData)
         THEN Outcome(st.dids, st.ops, "signature verification failed")
    ELSE IF ~VerifyKeyMatchesReveal(op.signedData.payload.key, op.revealValue)
         THEN Outcome(st.dids, st.ops, "recovery key does not match reveal")
    ELSE IF DeltaHash(op.delta) # op.signedData.payload.deltaHash
         THEN Outcome(st.dids, st.ops, "delta hash mismatch")
    ELSE LET didRecord == st.dids[did] IN
         SaveBoth(st, did,
                  [didRecord EXCEPT
                     !.document = ApplyRecoverPatches(NewDocument(did), op.delta.patches),
                     !.updateCommitment = op.delta.updateCommitment,
                     !.recoveryCommitment = op.signedData.payload.recoveryCommitment,
                     !.lastOperationBallot = ballotNumber],
                  OperationRecord(did, ballotNumber, OperationTypeRecover, op),
                  fault)
processRecoverChecksUpdateCommitment(st, did, op, ballotNumber, fault) ==
    IF ~op.jsonOk THEN Outcome(st.dids, st.ops, "failed to unmarshal operation")
    ELSE IF ~DIDExists(st.dids, did) THEN Outcome(st.dids, st.ops, "nil")
    ELSE IF st.dids[did].status # "active" THEN Outcome(st.dids, st.ops, "nil")
    ELSE IF ~VerifyReveal(op.revealValue, st.dids[did].updateCommitment)
         THEN Outcome(st.dids, st.ops, "reveal value does not match recovery commitment")
    ELSE IF ~VerifySignature(op.signedData)
         THEN Outcome(st.dids, st.ops, "signature verification failed")
    ELSE IF ~VerifyKeyMatchesReveal(op.signedData.payload.key, op.revealValue)
         THEN Outcome(st.dids, st.ops, "recovery key does not match reveal")
    ELSE IF DeltaHash(op.delta) # op.signedData.payload.deltaHash
         THEN Outcome(st.dids, st.ops, "delta hash mismatch")
    ELSE LET didRecord == st.dids[did] IN
         SaveBoth(st, did,
                  [didRecord EXCEPT
                     !.document = ApplyRecoverPatches(NewDocument(did), op.delta.patches),
                     !.updateCommitment = op.delta.updateCommitment,
                     !.recoveryCommitment = op.signedData.payload.recoveryCommitment,
                     !.lastOperationBallot = ballotNumber],
                  OperationRecord(did, ballotNumber, OperationTypeRecover, op),
                  fault)
processRecoverPatchesDocument(st, did, op, ballotNumber, fault) ==
    IF ~op.jsonOk THEN Outcome(st.dids, st.ops, "failed to unmarshal operation")
    ELSE IF ~DIDExists(st.dids, did) THEN Outcome(st.dids, st.ops, "nil")
    ELSE IF st.dids[did].status # "active" THEN Outcome(st.dids, st.ops, "nil")
    ELSE IF ~VerifyReveal(op.revealValue, st.dids[did].recoveryCommitment)
         THEN Outcome(st.dids, st.ops, "reveal value does not match recovery commitment")
    ELSE IF ~VerifySignature(op.signedData)
         THEN Outcome(st.dids, st.ops, "signature verification failed")
    ELSE IF ~VerifyKeyMatchesReveal(op.signedData.payload.key, op.revealValue)
         THEN Outcome(st.dids, st.ops, "recovery key does not match reveal")
    ELSE IF DeltaHash(op.delta) # op.signedData.payload.deltaHash
         THEN Outcome(st.dids, st.ops, "delta hash mismatch")
    ELSE LET didRecord == st.dids[did] IN
         SaveBoth(st, did,
                  [didRecord EXCEPT
                     !.document = ApplyRecoverPatches(didRecord.document, op.delta.patches),
                     !.updateCommitment = op.delta.updateCommitment,
                     !.recoveryCommitment = op.signedData.payload.recoveryCommitment,
                     !.lastOperationBallot = ballotNumber],
                  OperationRecord(did, ballotNumber, OperationTypeRecover, op),
                  fault)
processRecover(st, did, op, ballotNumber, fault) ==
    IF ~op.jsonOk THEN Outcome(st.dids, st.ops, "failed to unmarshal operation")
    ELSE IF ~DIDExists(st.dids, did) THEN Outcome(st.dids, st.ops, "nil")
    ELSE IF st.dids[did].status # "active" THEN Outcome(st.dids, st.ops, "nil")
    ELSE IF ~VerifyReveal(op.revealValue, st.dids[did].recoveryCommitment)
         THEN Outcome(st.dids, st.ops, "reveal value does not match recovery commitment")
    ELSE IF ~VerifySignature(op.signedData)
         THEN Outcome(st.dids, st.ops, "signature verification failed")
    ELSE IF ~VerifyKeyMatchesReveal(op.signedData.payload.key, op.revealValue)
         THEN Outcome(st.dids, st.ops, "recovery key does not match reveal")
    ELSE IF DeltaHash(op.delta) # op.signedData.payload.deltaHash
         THEN Outcome(st.dids, st.ops, "delta hash mismatch")
    ELSE LET didRecord == st.dids[did] IN
         SaveBoth(st, did,
                  [didRecord EXCEPT
                     !.document = ApplyRecoverPatches(NewDocument(did), op.delta.patches),
                     !.updateCommitment = op.delta.updateCommitment,
                     !.recoveryCommitment = op.signedData.payload.recoveryCommitment,
                     !.lastOperationBallot = ballotNumber],
                  OperationRecord(did, ballotNumber, OperationTypeRecover, op),
                  fault)

processDeactivateIgnoresStatus(st, did, op, ballotNumber, fault) ==
    IF ~op.jsonOk THEN Outcome(st.dids, st.ops, "failed to unmarshal operation")
    ELSE IF ~DIDExists(st.dids, did) THEN Outcome(st.dids, st.ops, "nil")
    ELSE IF ~VerifyReveal(op.revealValue, st.dids[did].recoveryCommitment)
         THEN Outcome(st.dids, st.ops, "reveal value does not match recovery commitment")
    ELSE IF ~VerifySignature(op.signedData)
         THEN Outcome(st.dids, st.ops, "signature verification failed")
    ELSE IF ~VerifyKeyMatchesReveal(op.signedData.payload.key, op.revealValue)
         THEN Outcome(st.dids, st.ops, "recovery key does not match reveal")
    ELSE IF /\ op.signedData.payload.didSuffix # did
            /\ op.signedData.payload.didSuffix # ParseDID(did)
         THEN Outcome(st.dids, st.ops, "DID suffix mismatch in signed data")
    ELSE LET didRecord == st.dids[did] IN
         SaveBoth(st, did,
                  [didRecord EXCEPT !.status = "deactivated",
                                    !.lastOperationBallot = ballotNumber],
                  OperationRecord(did, ballotNumber, OperationTypeDeactivate, op),
                  fault)
processDeactivateSkipsSuffix(st, did, op, ballotNumber, fault) ==
    IF ~op.jsonOk THEN Outcome(st.dids, st.ops, "failed to unmarshal operation")
    ELSE IF ~DIDExists(st.dids, did) THEN Outcome(st.dids, st.ops, "nil")
    ELSE IF st.dids[did].status # "active" THEN Outcome(st.dids, st.ops, "nil")
    ELSE IF ~VerifyReveal(op.revealValue, st.dids[did].recoveryCommitment)
         THEN Outcome(st.dids, st.ops, "reveal value does not match recovery commitment")
    ELSE IF ~VerifySignature(op.signedData)
         THEN Outcome(st.dids, st.ops, "signature verification failed")
    ELSE IF ~VerifyKeyMatchesReveal(op.signedData.payload.key, op.revealValue)
         THEN Outcome(st.dids, st.ops, "recovery key does not match reveal")
    ELSE LET didRecord == st.dids[did] IN
         SaveBoth(st, did,
                  [didRecord EXCEPT !.status = "deactivated",
                                    !.lastOperationBallot = ballotNumber],
                  OperationRecord(did, ballotNumber, OperationTypeDeactivate, op),
                  fault)
processDeactivate(st, did, op, ballotNumber, fault) ==
    IF ~op.jsonOk THEN Outcome(st.dids, st.ops, "failed to unmarshal operation")
    ELSE IF ~DIDExists(st.dids, did) THEN Outcome(st.dids, st.ops, "nil")
    ELSE IF st.dids[did].status # "active" THEN Outcome(st.dids, st.ops, "nil")
    ELSE IF ~VerifyReveal(op.revealValue, st.dids[did].recoveryCommitment)
         THEN Outcome(st.dids, st.ops, "reveal value does not match recovery commitment")
    ELSE IF ~VerifySignature(op.signedData)
         THEN Outcome(st.dids, st.ops, "signature verification failed")
    ELSE IF ~VerifyKeyMatchesReveal(op.signedData.payload.key, op.revealValue)
         THEN Outcome(st.dids, st.ops, "recovery key does not match reveal")
    ELSE IF /\ op.signedData.payload.didSuffix # did
            /\ op.signedData.payload.didSuffix # ParseDID(did)
         THEN Outcome(st.dids, st.ops, "DID suffix mismatch in signed data")
    ELSE LET didRecord == st.dids[did] IN
         SaveBoth(st, did,
                  [didRecord EXCEPT !.status = "deactivated",
                                    !.lastOperationBallot = ballotNumber],
                  OperationRecord(did, ballotNumber, OperationTypeDeactivate, op),
                  fault)

\* ProcessBallot after the RPC has answered: skip what is not a DID payload,
\* dispatch on the operation type.
ProcessRollAnyVersion(st, roll, ballotNumber, fault) ==
    IF ~roll.found THEN Outcome(st.dids, st.ops, "nil")
    ELSE IF roll.hex = "none" THEN Outcome(st.dids, st.ops, "nil")
    ELSE IF roll.hex = "short" THEN Outcome(st.dids, st.ops, "nil")
    ELSE IF roll.hex = "truncated" THEN Outcome(st.dids, st.ops, Panic)
    ELSE IF ~roll.decodes THEN Outcome(st.dids, st.ops, "nil")
    ELSE LET did == FormatDID(roll.didSuffix) IN
         CASE roll.opType = 1 -> processCreate(st, did, roll.op, ballotNumber, fault)
           [] roll.opType = 2 -> processUpdate(st, did, roll.op, ballotNumber, fault)
           [] roll.opType = 3 -> processRecover(st, did, roll.op, ballotNumber, fault)
           [] roll.opType = 4 -> processDeactivate(st, did, roll.op, ballotNumber, fault)
           [] OTHER -> Outcome(st.dids, st.ops, "unknown operation type")
ProcessRoll(st, roll, ballotNumber, fault) ==
    IF ~roll.found THEN Outcome(st.dids, st.ops, "nil")
    ELSE IF roll.hex = "none" THEN Outcome(st.dids, st.ops, "nil")
    ELSE IF roll.hex = "short" THEN Outcome(st.dids, st.ops, "nil")
    ELSE IF roll.hex = "truncated" THEN Outcome(st.dids, st.ops, Panic)
    ELSE IF ~roll.decodes THEN Outcome(st.dids, st.ops, "nil")
    ELSE IF roll.version # PayloadVersion THEN Outcome(st.dids, st.ops, "nil")
    ELSE LET did == FormatDID(roll.didSuffix) IN
         CASE roll.opType = 1 -> processCreate(st, did, roll.op, ballotNumber, fault)
           [] roll.opType = 2 -> processUpdate(st, did, roll.op, ballotNumber, fault)
           [] roll.opType = 3 -> processRecover(st, did, roll.op, ballotNumber, fault)
           [] roll.opType = 4 -> processDeactivate(st, did, roll.op, ballotNumber, fault)
           [] OTHER -> Outcome(st.dids, st.ops, "unknown operation type")

\* ProcessBallot: fetch one ballot and apply it.  rpcOk is whether the RPC
\* answered; roll is what it answered.
ProcessBallotSkipsOnRPCError(st, rpcOk, roll, ballotNumber, fault) ==
    IF ~rpcOk THEN Outcome(st.dids, st.ops, "nil")
    ELSE ProcessRoll(st, roll, ballotNumber, fault)
ProcessBallot(st, rpcOk, roll, ballotNumber, fault) ==
    IF ~rpcOk THEN Outcome(st.dids, st.ops, RPCError)
    ELSE ProcessRoll(st, roll, ballotNumber, fault)

\* ----------------------------------------------------------------- actions
\* keys.KeyFile of the one DID a node controls (updateKey 0: no file yet).
NoKeyFile == [did |-> <<>>, updateKey |-> 0, recoveryKey |-> 0]
\* No authoring call is running.
NoCall == [pc |-> "idle", ballot |-> -1, roll |-> NotFound, newUpdateKey |-> 0]
\* No function of bytes has been called.
NoWire == [fn |-> "none", in |-> <<>>, out |-> <<>>]

Init ==
    /\ log = <<>>
    /\ omit = -1
    /\ store = [p \in Procs |-> EmptyStore]
    /\ loop = [p \in Procs |-> [next |-> 0, remaining |-> 0]]
    /\ result = [p \in Procs |-> [ballot |-> -1, err |-> "nil"]]
    /\ keyFile = [p \in Procs |-> NoKeyFile]
    /\ call = [p \in Procs |-> NoCall]
    /\ wire = NoWire

Idle(p) == loop[p].remaining = 0

\* Documents only grow by patches; replay stops short of a document that
\* would exceed the model's bound.
DocsBounded(dids) ==
    \A did \in DOMAIN dids :
        /\ Len(dids[did].document.publicKeys) <= MaxItems
        /\ Len(dids[did].document.services) <= MaxItems

\* SyncFromBallot(startBallot, maxBallots): enter the loop.
SyncFromBallot(p, startBallot, maxBallots) ==
    /\ Idle(p)
    /\ maxBallots >= 1
    /\ startBallot + maxBallots <= MaxBallot
    /\ loop' = [loop EXCEPT ![p] = [next |-> startBallot, remaining |-> maxBallots]]
    /\ UNCHANGED <<log, omit, store, result, keyFile, call, wire>>

\* The sync driver resumes after the last synced ballot.
Resume(p) ==
    \E n \in 1 .. MaxBatch : SyncFromBallot(p, store[p].synced + 1, n)

\* `sync --from 0`: the operator replays a prefix of the log again.
Rerun(p) ==
    /\ store[p].synced >= 0
    /\ \E n \in 1 .. MaxBatch : SyncFromBallot(p, 0, n)

\* The roll processor p is answered for ballot b, given what was decided.
View(p, b, decided) == IF p = "Q" /\ omit = b THEN NotFound ELSE decided

\* One iteration of SyncFromBallot's loop: ProcessBallot, then SetSyncState.
\* An error from either ends the loop; the cursor moves only after both.
IterationAdvancesOnRPCError(p, rpcOk, decided, fault) ==
    LET b == loop[p].next
        out == ProcessBallot(store[p], rpcOk, View(p, b, decided), b, fault)
        err == IF out.err # "nil" THEN out.err
               ELSE IF fault = "SetSyncState" THEN StoreError
               ELSE "nil"
    IN
    /\ DocsBounded(out.dids)
    /\ store' = [store EXCEPT ![p] =
                    [dids |-> out.dids, ops |-> out.ops,
                     synced |-> IF err \in {"nil", RPCError} THEN b ELSE @.synced]]
    /\ loop' = [loop EXCEPT ![p] =
                    IF err \in {"nil", RPCError}
                    THEN [next |-> b + 1, remaining |-> @.remaining - 1]
                    ELSE [next |-> b, remaining |-> 0]]
    /\ result' = [result EXCEPT ![p] = [ballot |-> b, err |-> err]]
    /\ log' = IF b = Len(log) THEN Append(log, decided) ELSE log
    /\ UNCHANGED <<omit, keyFile, call, wire>>
Iteration(p, rpcOk, decided, fault) ==
    LET b == loop[p].next
        out == ProcessBallot(store[p], rpcOk, View(p, b, decided), b, fault)
        err == IF out.err # "nil" THEN out.err
               ELSE IF fault = "SetSyncState" THEN StoreError
               ELSE "nil"
    IN
    /\ DocsBounded(out.dids)
    /\ store' = [store EXCEPT ![p] =
                    [dids |-> out.dids, ops |-> out.ops,
                     synced |-> IF err = "nil" THEN b ELSE @.synced]]
    /\ loop' = [loop EXCEPT ![p] =
                    IF err = "nil"
                    THEN [next |-> b + 1, remaining |-> @.remaining - 1]
                    ELSE [next |-> b, remaining |-> 0]]
    /\ result' = [result EXCEPT ![p] = [ballot |-> b, err |-> err]]
    /\ log' = IF b = Len(log) THEN Append(log, decided) ELSE log
    /\ UNCHANGED <<omit, keyFile, call, wire>>

\* What the ordering service has decided, or now decides, for ballot b.
Decided(b) == IF b < Len(log) THEN {log[b + 1]} ELSE Rolls

\* An iteration in which the RPC and every store call succeed.
ProcessStep(p) ==
    /\ ~Idle(p)
    /\ \E decided \in Decided(loop[p].next) : Iteration(p, TRUE, decided, "none")

\* An iteration whose RPC fails (the ballot is decided all the same).
RPCFailure(p) ==
    /\ ~Idle(p)
    /\ \E decided \in Decided(loop[p].next) : Iteration(p, FALSE, decided, "none")

\* An iteration in which one store call fails.
FaultyStep(p) ==
    /\ ~Idle(p)
    /\ \E decided \in Decided(loop[p].next), fault \in StoreFaults \ {"none"} :
          Iteration(p, TRUE, decided, fault)

\* Replay by one processor whose RPC and store calls may fail.
Next ==
    \/ Resume("P")
    \/ ProcessStep("P")
    \/ RPCFailure("P")
    \/ FaultyStep("P")

Spec == Init /\ [][Next]_vars

\* The same, and the operator may start over from ballot 0 (no store faults).
NextRerun ==
    \/ Resume("P")
    \/ ProcessStep("P")
    \/ RPCFailure("P")
    \/ Rerun("P")

SpecRerun == Init /\ [][NextRerun]_vars

\* Two processors replay the same log; RPCs may fail, store calls succeed.
NextPair ==
    \E p \in Procs : Resume(p) \/ ProcessStep(p) \/ RPCFailure(p)

SpecPair == Init /\ [][NextPair]_vars

\* Two processors whose calls never fail; one ballot is missing from the log
\* Q replays.
InitOmit ==
    /\ Init!1 /\ Init!3 /\ Init!4 /\ Init!5 /\ Init!6 /\ Init!7 /\ Init!8
    /\ omit \in Ballots

NextOmit ==
    \E p \in Procs : Resume(p) \/ ProcessStep(p)

SpecOmit == InitOmit /\ [][NextOmit]_vars

\* One processor whose calls never fail, replaying a log that also holds
\* forged operations.
ForgedStep(p) ==
    /\ ~Idle(p)
    /\ \E decided \in (IF loop[p].next < Len(log) THEN {log[loop[p].next + 1]}
                       ELSE Rolls \cup ForgedRolls) :
          Iteration(p, TRUE, decided, "none")

NextForged ==
    \/ Resume("P")
    \/ ForgedStep("P")

SpecForged == Init /\ [][NextForged]_vars

\* One processor whose calls never fail, replaying a log that also holds
\* ballots without a version-1 DID payload.
EnvelopeStep(p) ==
    /\ ~Idle(p)
    /\ \E decided \in (IF loop[p].next < Len(log) THEN {log[loop[p].next + 1]}
                       ELSE Rolls \cup EnvelopeRolls) :
          Iteration(p, TRUE, decided, "none")

NextEnvelope ==
    \/ Resume("P")
    \/ EnvelopeStep("P")

SpecEnvelope == Init /\ [][NextEnvelope]_vars

\* Another client's payload is decided in the next ballot of the log.
Decide ==
    /\ Len(log) < MaxBallot
    /\ \E decided \in Rolls \ {NotFound} : log' = Append(log, decided)
    /\ UNCHANGED <<omit, store, loop, result, keyFile, call, wire>>

\* GetNextAvailableBallot(startBallot): the first ballot at or after
\* startBallot that has no decision yet.
GetNextAvailableBallot(startBallot) ==
    LET free == {b \in startBallot .. Len(log) :
                    b = Len(log) \/ ~log[b + 1].found}
    IN CHOOSE b \in free : \A c \in free : b <= c

\* The key generateNextKeyAndCommitment draws: a new one, not the current one.
generateNextKeyAndCommitment(k) == IF k = 3 THEN 1 ELSE 3

\* UpdateDID on the node of processor p: build the UPDATE against the local
\* record with the key k of the key file, submit it for the next available
\* ballot, wait for its decision, then ProcessBallot that ballot.
UpdateDID(p) ==
    /\ Idle(p)
    /\ \E sfx \in DIDs, k \in Keys, patch \in {Svc("s2"), Key("key-2")} :
          LET did == FormatDID(sfx)
              startBallot == IF store[p].synced < 0 THEN 0 ELSE store[p].synced
              ballotNumber == GetNextAvailableBallot(startBallot)
              roll == AuthoredUpdate(sfx, k, generateNextKeyAndCommitment(k),
                                     <<patch>>)
              out == ProcessBallot(store[p], TRUE, roll, ballotNumber, "none")
          IN /\ DIDExists(store[p].dids, did)
             /\ store[p].dids[did].status = "active"
             /\ VerifyReveal(RevealOf(k), store[p].dids[did].updateCommitment)
             /\ ballotNumber < MaxBallot
             /\ DocsBounded(out.dids)
             /\ log' = IF ballotNumber = Len(log) THEN Append(log, roll)
                       ELSE [log EXCEPT ![ballotNumber + 1] = roll]
             /\ store' = [store EXCEPT ![p].dids = out.dids, ![p].ops = out.ops]
             /\ result' = [result EXCEPT
                              ![p] = [ballot |-> ballotNumber, err |-> out.err]]
             /\ UNCHANGED <<omit, loop, keyFile, call, wire>>

\* One node that syncs and authors, while other clients' ballots are decided.
NextAuthor ==
    \/ Resume("P")
    \/ ProcessStep("P")
    \/ Decide
    \/ UpdateDID("P")

SpecAuthor == Init /\ [][NextAuthor]_vars

\* ------------------------------------------------------ authoring client
\* The log after the ordering service has decided roll for ballotNumber.
Place(roll, ballotNumber) ==
    IF ballotNumber = Len(log) THEN Append(log, roll)
    ELSE [log EXCEPT ![ballotNumber + 1] = roll]

\* The first ballot the client asks GetNextAvailableBallot to look at.
StartBallot(p) == IF store[p].synced < 0 THEN 0 ELSE store[p].synced

\* CreateDID on node p: generate the update key 1 and the recovery key 2,
\* build the CREATE, take the suffix from it while its document has no id,
\* put the DID into the document, submit for the next available ballot, wait
\* for the decision, ProcessBallot that ballot, then write the key file.
CreateDID(p) ==
    LET createOp == CreateOperation(AddPublicKey(NewDocument(<<>>), "key-1"),
                                    CommitOf(1), CommitOf(2))
        suffix == GenerateDIDSuffix(createOp)
        did == FormatDID(suffix)
        roll == OpRoll(1, suffix, [createOp EXCEPT !.initialDocument.id = did])
        ballotNumber == GetNextAvailableBallot(StartBallot(p))
        out == ProcessBallot(store[p], TRUE, roll, ballotNumber, "none")
    IN /\ Idle(p)
       /\ call[p].pc = "idle"
       /\ keyFile[p] = NoKeyFile
       /\ ballotNumber < MaxBallot
       /\ log' = Place(roll, ballotNumber)
       /\ store' = [store EXCEPT ![p].dids = out.dids, ![p].ops = out.ops]
       /\ result' = [result EXCEPT
                        ![p] = [ballot |-> ballotNumber, err |-> out.err]]
       /\ keyFile' = IF out.err = "nil"
                     THEN [keyFile EXCEPT
                              ![p] = [did |-> did, updateKey |-> 1,
                                      recoveryKey |-> 2]]
                     ELSE keyFile
       /\ UNCHANGED <<omit, loop, call, wire>>

\* Payloads of other clients that may win the ballot a client submitted for.
Contenders == {Garbage} \cup {AuthoredCreate(s, 1, 2) : s \in DIDs}

\* UpdateDID up to the submission: load the key file and the DID record,
\* check the reveal of the key file's update key against the record, draw the
\* next key, build and sign the UPDATE, find the next available ballot and
\* submit (AddBambooKV).  The ordering service decides that ballot: for this
\* payload or for another client's.  The next key is in memory only.
UpdateDIDSubmit(p) ==
    /\ Idle(p)
    /\ call[p].pc = "idle"
    /\ keyFile[p] # NoKeyFile
    /\ \E patch \in {Svc("s2"), Key("key-2")} :
          LET did == keyFile[p].did
              k == keyFile[p].updateKey
              newUpdateKey == generateNextKeyAndCommitment(k)
              roll == AuthoredUpdate(ParseDID(did), k, newUpdateKey, <<patch>>)
              ballotNumber == GetNextAvailableBallot(StartBallot(p))
          IN /\ DIDExists(store[p].dids, did)
             /\ store[p].dids[did].status = "active"
             /\ VerifyReveal(RevealOf(k), store[p].dids[did].updateCommitment)
             /\ ballotNumber < MaxBallot
             /\ DocsBounded(ProcessRoll(store[p], roll, ballotNumber, "none").dids)
             /\ \E decided \in {roll} \cup Contenders :
                   log' = Place(decided, ballotNumber)
             /\ call' = [call EXCEPT
                            ![p] = [pc |-> "submitted", ballot |-> ballotNumber,
                                    roll |-> roll,
                                    newUpdateKey |-> newUpdateKey]]
             /\ UNCHANGED <<omit, store, loop, result, keyFile, wire>>

\* UpdateDID from the confirmation on: PollForConfirmation returns as soon as
\* the ballot has a decision, whatever it holds; ProcessBallot applies that
\* ballot; then the key file is rewritten with the next key.  An error from
\* ProcessBallot returns before the key file is written.
UpdateDIDConfirm(p) ==
    /\ call[p].pc = "submitted"
    /\ LET b == call[p].ballot
           out == ProcessBallot(store[p], TRUE, log[b + 1], b, "none")
       IN /\ store' = [store EXCEPT ![p].dids = out.dids, ![p].ops = out.ops]
          /\ result' = [result EXCEPT ![p] = [ballot |-> b, err |-> out.err]]
          /\ keyFile' = IF out.err = "nil"
                        THEN [keyFile EXCEPT
                                 ![p].updateKey = call[p].newUpdateKey]
                        ELSE keyFile
    /\ call' = [call EXCEPT ![p] = NoCall]
    /\ UNCHANGED <<log, omit, loop, wire>>

\* The client process dies between submission and confirmation: what it
\* held in memory is gone, the disk and the ballot log stay.
Crash(p) ==
    /\ call[p].pc = "submitted"
    /\ call' = [call EXCEPT ![p] = NoCall]
    /\ UNCHANGED <<log, omit, store, loop, result, keyFile, wire>>

\* `sync` on a node where no authoring call is running.
ClientSync(p) == call[p].pc = "idle" /\ Resume(p)

\* An iteration over a ballot of the log as it stands (not found: undecided).
SyncStep(p) ==
    /\ ~Idle(p)
    /\ Iteration(p, TRUE,
                 IF loop[p].next < Len(log) THEN log[loop[p].next + 1]
                 ELSE NotFound,
                 "none")

\* One node that creates a DID, updates it and syncs; its process may die
\* while it waits for a confirmation.
NextClient ==
    \/ CreateDID("P")
    \/ UpdateDIDSubmit("P")
    \/ UpdateDIDConfirm("P")
    \/ Crash("P")
    \/ ClientSync("P")
    \/ SyncStep("P")

SpecClient == Init /\ [][NextClient]_vars

\* ----------------------------------------------------------- stripWrappers
\* Ballot data as stripWrappers sees it: a hex string.  hex is "ok" when
\* hex.DecodeString accepts it, and bytes is then what it decodes to; "bad"
\* otherwise (an odd length, a character that is no hex digit).
HexData(hex, bytes) == [hex |-> hex, bytes |-> bytes]
\* hexData[n:] for n past the end of the string: the Go runtime panics.
SlicePanic == HexData("panic", <<>>)
\* No result yet.
Pending == HexData("pending", <<>>)

\* The byte values that drive the branches: 0x00, the version byte 0x01,
\* 0x80 (a varint byte with the continuation bit), 0xfd, 0xfe, 0xff.
ByteValues == {0, 1, 128, 253, 254, 255}

\* hexData[2*offset:]
HexSlice(hexData, offset) ==
    IF offset > Len(hexData.bytes) THEN SlicePanic
    ELSE [hexData EXCEPT !.bytes = SubSeq(@, offset + 1, Len(@))]

\* stripSlotWrapper: 0000, then a CompactSize whose width the byte at
\* position 2 gives.
stripSlotWrapper(hexData) ==
    LET data == hexData.bytes IN
    IF Len(data) < 3 THEN hexData
    ELSE IF data[3] < 253 THEN HexSlice(hexData, 3)
    ELSE IF data[3] = 253 THEN HexSlice(hexData, 5)
    ELSE IF data[3] = 254 THEN HexSlice(hexData, 7)
    ELSE HexSlice(hexData, 11)

\* The varint loop of stripReferendumVoteWrapper: the offset after the varint
\* that starts at offset, or the length of data if the varint never ends.
RECURSIVE SkipVarint(_, _)
SkipVarint(data, offset) ==
    IF offset >= Len(data) THEN offset
    ELSE IF data[offset + 1] < 128 THEN offset + 1
    ELSE SkipVarint(data, offset + 1)

\* stripReferendumVoteWrapper: 00, a varint ballot number, a CompactSize.
stripReferendumVoteWrapper(hexData) ==
    LET data == hexData.bytes
        offset == SkipVarint(data, 1)
    IN
    IF Len(data) < 3 THEN hexData
    ELSE IF offset >= Len(data) THEN hexData
    ELSE IF data[offset + 1] < 253 THEN HexSlice(hexData, offset + 1)
    ELSE IF data[offset + 1] = 253 THEN HexSlice(hexData, offset + 3)
    ELSE IF data[offset + 1] = 254 THEN HexSlice(hexData, offset + 5)
    ELSE HexSlice(hexData, offset + 9)

stripWrappers(hexData) ==
    LET data == hexData.bytes IN
    IF hexData.hex # "ok" \/ Len(data) < 3 THEN hexData
    ELSE IF data[1] = 0 /\ data[2] = 0 THEN stripSlotWrapper(hexData)
    ELSE IF data[1] = 0 THEN stripReferendumVoteWrapper(hexData)
    ELSE hexData

\* Every hex string of at most MaxBytes bytes over ByteValues, and strings
\* that are no hex at all.
WireInputs ==
    {HexData("ok", b) : b \in UNION {[1 .. n -> ByteValues] : n \in 0 .. MaxBytes}}
    \cup {HexData("bad", [i \in 1 .. n |-> 0]) : n \in 1 .. MaxBytes}

\* stripWrappers is called on some ballot data.
InitWire ==
    /\ Init!1 /\ Init!2 /\ Init!3 /\ Init!4 /\ Init!5 /\ Init!6 /\ Init!7
    /\ wire \in {[fn |-> "stripWrappers", in |-> hexData, out |-> Pending] :
                    hexData \in WireInputs}

StripWrappers ==
    /\ wire.fn = "stripWrappers"
    /\ wire.out = Pending
    /\ wire' = [wire EXCEPT !.out = stripWrappers(wire.in)]
    /\ UNCHANGED <<log, omit, store, loop, result, keyFile, call>>

NextWire == StripWrappers

SpecWire == InitWire /\ [][NextWire]_vars

\* ------------------------------------------- threshold UPDATE (design)
\* processor.go has no threshold branch: processUpdate reads one revealValue
\* and one signedData.  What follows is the verification flow THRESHOLD-DID.md
\* lists for M-of-N DIDs.
\* hash(a + b) of two node hashes, and the leaf H(revealValue).
MerkleHash(left, right) == <<"h", left, right>>
MerkleLeaf(revealValue) == <<"leaf", revealValue>>

\* MerkleProof: the sibling hashes from leaf to root and the leaf index.
MerkleProof(siblings, index) == [siblings |-> siblings, index |-> index]

RECURSIVE verifyMerkleFold(_, _, _)
verifyMerkleFold(current, siblings, index) ==
    IF siblings = <<>> THEN current
    ELSE verifyMerkleFold(IF index % 2 = 0
                          THEN MerkleHash(current, Head(siblings))
                          ELSE MerkleHash(Head(siblings), current),
                          Tail(siblings), index \div 2)
verifyMerkleProof(leaf, proof, expectedRoot) ==
    verifyMerkleFold(leaf, proof.siblings, proof.index) = expectedRoot

\* A DID under 2-of-2 control: controller i holds key i + 1, and the update
\* commitment is the Merkle root over the two leaves.
UpdateThreshold == 2
UpdateControllerCount == 2
ControllerLeaf(i) == MerkleLeaf(RevealOf(i + 1))
ThresholdRecord ==
    [updateThreshold |-> UpdateThreshold,
     updateControllerCount |-> UpdateControllerCount,
     updateCommitment |-> MerkleHash(ControllerLeaf(0), ControllerLeaf(1))]

\* ControllerReveal as a controller (or an outsider holding key k) builds
\* it: the claimed index, the key, its reveal value, the proof for the
\* leaf at position (k - 1) % 2, and the JWS over the delta hash.
\* flaw "key": the reveal value is another key's; "signature": a bad JWS.
ControllerReveal(index, k, flaw, deltaHash) ==
    [index |-> index,
     publicKey |-> k,
     revealValue |-> IF flaw = "key" THEN RevealOf((k % 3) + 1) ELSE RevealOf(k),
     merkleProof |-> MerkleProof(<<ControllerLeaf(k % 2)>>, (k - 1) % 2),
     signature |-> JWS(deltaHash, IF flaw = "signature" THEN 0 ELSE k)]

\* Steps A to D of the loop body: the key hashes to the reveal, the leaf is
\* under the root, the signature over the delta hash verifies.
RevealCounts(reveal, merkleRoot, deltaHash) ==
    /\ HashToBase64URL(JWKBytes(reveal.publicKey)) = reveal.revealValue
    /\ verifyMerkleProof(MerkleLeaf(reveal.revealValue), reveal.merkleProof,
                         merkleRoot)
    /\ reveal.signature.signer = reveal.publicKey
    /\ reveal.signature.payload = deltaHash

\* The loop over op.Reveals: an error, or the number of valid reveals.
RECURSIVE verifyRevealsCountsDuplicates(_, _, _, _, _)
verifyRevealsCountsDuplicates(reveals, usedIndices, validCount, didRecord, deltaHash) ==
    IF reveals = <<>> THEN [err |-> "nil", validCount |-> validCount]
    ELSE LET reveal == Head(reveals) IN
         IF reveal.index < 0 \/ reveal.index >= didRecord.updateControllerCount
         THEN [err |-> "controller index out of range", validCount |-> validCount]
         ELSE verifyRevealsCountsDuplicates(
                  Tail(reveals), usedIndices \cup {reveal.index},
                  IF RevealCounts(reveal, didRecord.updateCommitment, deltaHash)
                  THEN validCount + 1 ELSE validCount,
                  didRecord, deltaHash)
RECURSIVE verifyReveals(_, _, _, _, _)
verifyReveals(reveals, usedIndices, validCount, didRecord, deltaHash) ==
    IF reveals = <<>> THEN [err |-> "nil", validCount |-> validCount]
    ELSE LET reveal == Head(reveals) IN
         IF reveal.index \in usedIndices
         THEN [err |-> "duplicate controller index", validCount |-> validCount]
         ELSE IF reveal.index < 0 \/ reveal.index >= didRecord.updateControllerCount
         THEN [err |-> "controller index out of range", validCount |-> validCount]
         ELSE verifyReveals(
                  Tail(reveals), usedIndices \cup {reveal.index},
                  IF RevealCounts(reveal, didRecord.updateCommitment, deltaHash)
                  THEN validCount + 1 ELSE validCount,
                  didRecord, deltaHash)

\* processThresholdUpdate: the error it returns ("nil": the delta is applied).
processThresholdUpdateCountsDuplicates(didRecord, op) ==
    IF Len(op.reveals) < didRecord.updateThreshold THEN "insufficient reveals"
    ELSE LET checked == verifyRevealsCountsDuplicates(op.reveals, {}, 0, didRecord,
                                                      DeltaHash(op.delta))
         IN IF checked.err # "nil" THEN checked.err
            ELSE IF checked.validCount < didRecord.updateThreshold
            THEN "threshold not met"
            ELSE "nil"
processThresholdUpdate(didRecord, op) ==
    IF Len(op.reveals) < didRecord.updateThreshold THEN "insufficient reveals"
    ELSE LET checked == verifyReveals(op.reveals, {}, 0, didRecord,
                                      DeltaHash(op.delta))
         IN IF checked.err # "nil" THEN checked.err
            ELSE IF checked.validCount < didRecord.updateThreshold
            THEN "threshold not met"
            ELSE "nil"

\* Threshold UPDATEs with up to MaxReveals reveals: every claimed index from
\* 0 to N (N is out of range), keys 1 .. 3 (3 is no controller), every flaw.
ThresholdDelta == Delta(<<Svc("s1")>>, ThresholdRecord.updateCommitment)
ThresholdReveals ==
    {ControllerReveal(index, k, flaw, DeltaHash(ThresholdDelta)) :
        index \in 0 .. UpdateControllerCount, k \in Keys,
        flaw \in {"none", "key", "signature"}}
ThresholdUpdates ==
    {[reveals |-> r, delta |-> ThresholdDelta] :
        r \in UNION {[1 .. n -> ThresholdReveals] : n \in 1 .. MaxReveals}}

InitThreshold ==
    /\ Init!1 /\ Init!2 /\ Init!3 /\ Init!4 /\ Init!5 /\ Init!6 /\ Init!7
    /\ wire \in {[fn |-> "processThresholdUpdate", in |-> op, out |-> "pending"] :
                    op \in ThresholdUpdates}

ThresholdUpdate ==
    /\ wire.fn = "processThresholdUpdate"
    /\ wire.out = "pending"
    /\ wire' = [wire EXCEPT !.out = processThresholdUpdate(ThresholdRecord, wire.in)]
    /\ UNCHANGED <<log, omit, store, loop, result, keyFile, call>>

NextThreshold == ThresholdUpdate

SpecThreshold == InitThreshold /\ [][NextThreshold]_vars

\* ------------------------------------------- Merkle tree (design)
\* BuildMerkleTree and verifyMerkleProof as THRESHOLD-DID.md lists them.
nextPowerOf2(n) == CHOOSE p \in {1, 2, 4, 8} : p >= n /\ (p = 1 \/ p \div 2 < n)

\* hash(""): the leaf that pads the tree to a power of two.
MerklePad == MerkleLeaf(<<>>)

\* The leaves H(H(pk)) of the keys, padded to treeSize.
MerkleLeaves(publicKeys) ==
    [i \in 1 .. nextPowerOf2(Len(publicKeys)) |->
        IF i <= Len(publicKeys) THEN MerkleLeaf(RevealOf(publicKeys[i]))
        ELSE MerklePad]

\* nextLevel[i/2] = hash(left + right) for each pair of currentLevel.
MerkleNextLevel(currentLevel) ==
    [i \in 1 .. Len(currentLevel) \div 2 |->
        MerkleHash(currentLevel[2 * i - 1], currentLevel[2 * i])]

\* The inner loop over j: the proof whose levelIndex lies in a pair of
\* currentLevel gets the other node of the pair appended.
MerkleAddSibling(proof, currentLevel) ==
    LET levelIndex == proof.index \div (2 ^ Len(proof.siblings))
    IN MerkleProof(Append(proof.siblings,
                          IF levelIndex % 2 = 0
                          THEN currentLevel[levelIndex + 2]
                          ELSE currentLevel[levelIndex]),
                   proof.index)

\* The loop "for len(currentLevel) > 1": the root and the proofs.
RECURSIVE MerkleBuildLevels(_, _)
MerkleBuildLevels(currentLevel, proofs) ==
    IF Len(currentLevel) <= 1
    THEN [root |-> currentLevel[1], proofs |-> proofs]
    ELSE MerkleBuildLevels(
             MerkleNextLevel(currentLevel),
             [j \in DOMAIN proofs |-> MerkleAddSibling(proofs[j], currentLevel)])

\* BuildMerkleTree keeps a proof for each of the n keys.  slots is the number
\* of leaf positions a proof is collected for: n in BuildMerkleTree, and
\* treeSize for the paths of the padded positions, which anyone who knows
\* the leaves can compute the same way.
MerkleTreeWithPaths(publicKeys, slots) ==
    MerkleBuildLevels(MerkleLeaves(publicKeys),
                      [j \in 1 .. slots |-> MerkleProof(<<>>, j - 1)])
BuildMerkleTree(publicKeys) == MerkleTreeWithPaths(publicKeys, Len(publicKeys))

\* Three controllers with keys 1, 2, 3: a tree of four leaves, one padded.
MerkleKeys == <<1, 2, 3>>
MerkleTree == BuildMerkleTree(MerkleKeys)
MerklePaths == MerkleTreeWithPaths(MerkleKeys, nextPowerOf2(Len(MerkleKeys)))

\* A sibling with one bit flipped.
FlipBit(sibling) == <<"flipped", sibling>>
FlipAt(siblings, at) ==
    [k \in DOMAIN siblings |-> IF k = at THEN FlipBit(siblings[k]) ELSE siblings[k]]

\* Proofs put to verifyMerkleProof against the real root (wire.out is <<>>
\* before the call and <<result>> after it): the leaf at
\* position leafAt, the true siblings of position pathAt (none flipped when
\* flipAt = 0), and any index up to MaxIndex.
MerkleInputs ==
    {[leafAt |-> l, pathAt |-> s, flipAt |-> f,
      leaf |-> MerkleLeaves(MerkleKeys)[l + 1],
      proof |-> MerkleProof(FlipAt(MerklePaths.proofs[s + 1].siblings, f), i)] :
        l \in 0 .. 3, s \in 0 .. 3, f \in 0 .. 2, i \in 0 .. MaxIndex}

InitMerkle ==
    /\ Init!1 /\ Init!2 /\ Init!3 /\ Init!4 /\ Init!5 /\ Init!6 /\ Init!7
    /\ wire \in {[fn |-> "verifyMerkleProof", in |-> x, out |-> <<>>] :
                    x \in MerkleInputs}

VerifyMerkleProof ==
    /\ wire.fn = "verifyMerkleProof"
    /\ wire.out = <<>>
    /\ wire' = [wire EXCEPT !.out = <<verifyMerkleProof(wire.in.leaf, wire.in.proof,
                                                        MerkleTree.root)>>]
    /\ UNCHANGED <<log, omit, store, loop, result, keyFile, call>>

NextMerkle == VerifyMerkleProof

SpecMerkle == InitMerkle /\ [][NextMerkle]_vars

\* ------------------------------------------------ compact codec (UPDATE)
\* Bytes are numbers 0 .. 255, byte strings and strings are sequences of
\* them.  A nil slice and an empty one are both <<>>.
\* KeySizes, in units of 16 bytes (33 counts as 3): the widths the decoder
\* reads for a public key and a signature of each key type.  HashLen is the
\* width of a hash, a suffix or a commitment (32 bytes).
\* Key types: 0 Ed25519, 1 secp256k1, 2 P-256, 3 BLS12-381-G1.
KeySizes ==
    (0 :> [PubKey |-> 2, Sig |-> 4]) @@
    (1 :> [PubKey |-> 3, Sig |-> 4]) @@
    (2 :> [PubKey |-> 3, Sig |-> 4]) @@
    (3 :> [PubKey |-> 3, Sig |-> 6])
HashLen == 2
PayloadVersionCompact == 2
FlagThreshold == 1
FlagBLSAggregated == 2
HasFlag(flags, flag) == (flags \div flag) % 2 = 1

RECURSIVE Concat(_)
Concat(seqs) == IF seqs = <<>> THEN <<>> ELSE Head(seqs) \o Concat(Tail(seqs))

\* Encoder.  The length tests of WriteString and WriteLongString cannot
\* fail on the strings of the model.
WriteString(s) == <<Len(s) % 256>> \o s
WriteLongString(s) == <<(Len(s) \div 256) % 256, Len(s) % 256>> \o s
WritePublicKey(pk) ==
    WriteString(pk.id) \o <<pk.keyType>> \o pk.keyBytes \o <<pk.purposes>>
WriteService(svc) ==
    WriteString(svc.id) \o WriteString(svc.type) \o WriteLongString(svc.endpoint)
WriteReveal(r) ==
    <<r.index, r.keyType>> \o r.publicKey \o <<r.merkleDepth>>
        \o Concat(r.merkleSiblings) \o r.signature
WritePatch(p) ==
    <<p.type>> \o
    CASE p.type = 1 -> <<Len(p.publicKeys) % 256>>
                          \o Concat([i \in DOMAIN p.publicKeys |-> WritePublicKey(p.publicKeys[i])])
      [] p.type = 2 -> <<Len(p.keyIDs) % 256>>
                          \o Concat([i \in DOMAIN p.keyIDs |-> WriteString(p.keyIDs[i])])
      [] p.type = 3 -> <<Len(p.services) % 256>>
                          \o Concat([i \in DOMAIN p.services |-> WriteService(p.services[i])])
      [] p.type = 4 -> <<Len(p.serviceIDs) % 256>>
                          \o Concat([i \in DOMAIN p.serviceIDs |-> WriteString(p.serviceIDs[i])])
WriteDelta(d) ==
    <<Len(d.patches) % 256>>
        \o Concat([i \in DOMAIN d.patches |-> WritePatch(d.patches[i])])

\* computeRevealValue: the first 32 bytes of the key (a placeholder for
\* SHA-256 in the source).
computeRevealValue(publicKey) == SubSeq(publicKey, 1, HashLen)

\* EncodeUpdate: [err, bytes].
EncodeUpdate(u) ==
    LET head == <<u.header.version, u.header.operation, u.header.flags>>
                    \o u.didSuffix
        tail == u.newCommitment \o WriteDelta(u.delta)
    IN IF HasFlag(u.header.flags, FlagThreshold)
       THEN [err |-> FALSE,
             bytes |-> head \o <<Len(u.reveals) % 256>>
                         \o Concat([i \in DOMAIN u.reveals |-> WriteReveal(u.reveals[i])])
                         \o tail]
       ELSE IF Len(u.reveals) # 1 THEN [err |-> TRUE, bytes |-> <<>>]
       ELSE LET r == u.reveals[1]
            IN [err |-> FALSE,
                bytes |-> head \o computeRevealValue(r.publicKey) \o <<r.keyType>>
                            \o r.publicKey \o r.signature \o tail]

\* Decoder: d = [r, err], the bytes left and the sticky error.  Every read
\* returns [v, d]: the value and the decoder after it.
NewDecoder(data) == [r |-> data, err |-> FALSE]
ReadByte(d) ==
    IF d.err THEN [v |-> 0, d |-> d]
    ELSE IF d.r = <<>> THEN [v |-> 0, d |-> [d EXCEPT !.err = TRUE]]
    ELSE [v |-> Head(d.r), d |-> [d EXCEPT !.r = Tail(@)]]
ReadBytes(d, n) ==
    IF d.err THEN [v |-> <<>>, d |-> d]
    ELSE IF Len(d.r) < n THEN [v |-> <<>>, d |-> [r |-> <<>>, err |-> TRUE]]
    ELSE [v |-> SubSeq(d.r, 1, n), d |-> [d EXCEPT !.r = SubSeq(@, n + 1, Len(@))]]
ReadString(d) ==
    LET length == ReadByte(d)
    IN IF length.d.err THEN [v |-> <<>>, d |-> length.d]
       ELSE ReadBytes(length.d, length.v)
ReadLongString(d) ==
    LET b == ReadBytes(d, 2)
    IN IF b.d.err THEN [v |-> <<>>, d |-> b.d]
       ELSE ReadBytes(b.d, 256 * b.v[1] + b.v[2])
ReadPublicKey(d) ==
    LET id == ReadString(d)
        keyType == ReadByte(id.d)
        pk == [id |-> id.v, keyType |-> keyType.v, keyBytes |-> <<>>, purposes |-> 0]
    IN IF keyType.d.err THEN [v |-> pk, d |-> keyType.d]
       ELSE IF keyType.v \notin DOMAIN KeySizes
       THEN [v |-> pk, d |-> [keyType.d EXCEPT !.err = TRUE]]
       ELSE LET keyBytes == ReadBytes(keyType.d, KeySizes[keyType.v].PubKey)
                purposes == ReadByte(keyBytes.d)
            IN [v |-> [pk EXCEPT !.keyBytes = keyBytes.v, !.purposes = purposes.v],
                d |-> purposes.d]
ReadService(d) ==
    LET id == ReadString(d)
        type == ReadString(id.d)
        endpoint == ReadLongString(type.d)
    IN [v |-> [id |-> id.v, type |-> type.v, endpoint |-> endpoint.v],
        d |-> endpoint.d]

\* count reads of one kind in a row: [v, d] with v the sequence read.
RECURSIVE ReadMany(_, _, _)
ReadReveal(d) ==
    LET index == ReadByte(d)
        keyType == ReadByte(index.d)
        r == [index |-> index.v, keyType |-> keyType.v, publicKey |-> <<>>,
              merkleDepth |-> 0, merkleSiblings |-> <<>>, signature |-> <<>>]
    IN IF keyType.d.err THEN [v |-> r, d |-> keyType.d]
       ELSE IF keyType.v \notin DOMAIN KeySizes
       THEN [v |-> r, d |-> [keyType.d EXCEPT !.err = TRUE]]
       ELSE LET publicKey == ReadBytes(keyType.d, KeySizes[keyType.v].PubKey)
                merkleDepth == ReadByte(publicKey.d)
                siblings == ReadMany(merkleDepth.d, merkleDepth.v, "sibling")
                signature == ReadBytes(siblings.d, KeySizes[keyType.v].Sig)
            IN [v |-> [r EXCEPT !.publicKey = publicKey.v,
                                !.merkleDepth = merkleDepth.v,
                                !.merkleSiblings = siblings.v,
                                !.signature = signature.v],
                d |-> signature.d]
ReadPatch(d) ==
    LET type == ReadByte(d)
        count == ReadByte(type.d)
        p == [type |-> type.v, publicKeys |-> <<>>, keyIDs |-> <<>>,
              services |-> <<>>, serviceIDs |-> <<>>]
    IN CASE type.v = 1 ->
              LET items == ReadMany(count.d, count.v, "publicKey")
              IN [v |-> [p EXCEPT !.publicKeys = items.v], d |-> items.d]
         [] type.v = 2 ->
              LET items == ReadMany(count.d, count.v, "string")
              IN [v |-> [p EXCEPT !.keyIDs = items.v], d |-> items.d]
         [] type.v = 3 ->
              LET items == ReadMany(count.d, count.v, "service")
              IN [v |-> [p EXCEPT !.services = items.v], d |-> items.d]
         [] type.v = 4 ->
              LET items == ReadMany(count.d, count.v, "string")
              IN [v |-> [p EXCEPT !.serviceIDs = items.v], d |-> items.d]
         [] OTHER -> [v |-> p, d |-> [type.d EXCEPT !.err = TRUE]]
ReadMany(d, count, kind) ==
    IF count = 0 THEN [v |-> <<>>, d |-> d]
    ELSE LET first == CASE kind = "sibling" -> ReadBytes(d, HashLen)
                        [] kind = "string" -> ReadString(d)
                        [] kind = "publicKey" -> ReadPublicKey(d)
                        [] kind = "service" -> ReadService(d)
                        [] kind = "reveal" -> ReadReveal(d)
                        [] kind = "patch" -> ReadPatch(d)
             rest == ReadMany(first.d, count - 1, kind)
         IN [v |-> <<first.v>> \o rest.v, d |-> rest.d]
ReadDelta(d) ==
    LET count == ReadByte(d)
        patches == ReadMany(count.d, count.v, "patch")
    IN [v |-> [patches |-> patches.v], d |-> patches.d]

\* DecodeUpdate: [err, op].
NoUpdate == [err |-> TRUE, op |-> <<>>]
DecodeUpdate(data) ==
    LET version == ReadByte(NewDecoder(data))
        operation == ReadByte(version.d)
        flags == ReadByte(operation.d)
        didSuffix == ReadBytes(flags.d, HashLen)
        rest(reveals, after) ==
            LET newCommitment == ReadBytes(after, HashLen)
                delta == ReadDelta(newCommitment.d)
            IN IF delta.d.err THEN NoUpdate
               ELSE [err |-> FALSE,
                     op |-> [header |-> [version |-> version.v,
                                         operation |-> operation.v,
                                         flags |-> flags.v],
                             didSuffix |-> didSuffix.v,
                             reveals |-> reveals,
                             newCommitment |-> newCommitment.v,
                             delta |-> delta.v,
                             aggregatedSigKey |-> <<>>]]
    IN IF version.v # PayloadVersionCompact THEN NoUpdate
       ELSE IF operation.v # 2 THEN NoUpdate
       ELSE IF HasFlag(flags.v, FlagThreshold)
       THEN LET revealCount == ReadByte(didSuffix.d)
                reveals == ReadMany(revealCount.d, revealCount.v, "reveal")
            IN rest(reveals.v, reveals.d)
       ELSE LET revealValue == ReadBytes(didSuffix.d, HashLen)
                keyType == ReadByte(revealValue.d)
            IN IF keyType.v \notin DOMAIN KeySizes THEN NoUpdate
               ELSE LET publicKey == ReadBytes(keyType.d, KeySizes[keyType.v].PubKey)
                        signature == ReadBytes(publicKey.d, KeySizes[keyType.v].Sig)
                    IN rest(<<[index |-> 0, keyType |-> keyType.v,
                               publicKey |-> publicKey.v, merkleDepth |-> 0,
                               merkleSiblings |-> <<>>,
                               signature |-> signature.v]>>,
                            signature.d)

\* ------------------------------------------------ payload codec (JSON)
\* hex.EncodeToString and hex.DecodeString over sequences of hex digits.
HexEncode(bytes) ==
    [i \in 1 .. 2 * Len(bytes) |->
        IF i % 2 = 1 THEN bytes[(i + 1) \div 2] \div 16 ELSE bytes[i \div 2] % 16]
HexDecode(hexData) ==
    IF Len(hexData) % 2 # 0 THEN [err |-> TRUE, bytes |-> <<>>]
    ELSE [err |-> FALSE,
          bytes |-> [i \in 1 .. Len(hexData) \div 2 |->
                        16 * hexData[2 * i - 1] + hexData[2 * i]]]

\* binary.PutUvarint and binary.ReadUvarint (lengths of the model stay far
\* below the ten-byte overflow limit).
RECURSIVE writeVarint(_)
writeVarint(n) ==
    IF n < 128 THEN <<n>> ELSE <<128 + (n % 128)>> \o writeVarint(n \div 128)
RECURSIVE readVarint(_)
readVarint(d) ==
    LET b == ReadByte(d)
    IN IF b.d.err \/ b.v < 128 THEN b
       ELSE LET high == readVarint(b.d)
            IN [v |-> (b.v - 128) + 128 * high.v, d |-> high.d]

\* EncodePayload, on the bytes json.Marshal gives for the operation data.
EncodePayload(opType, didSuffix, jsonBytes) ==
    HexEncode(<<PayloadVersion, opType>>
                \o writeVarint(Len(didSuffix)) \o didSuffix
                \o writeVarint(Len(jsonBytes)) \o jsonBytes)

\* DecodePayload: [err, version, opType, didSuffix, operationJSON].
NoPayload ==
    [err |-> TRUE, version |-> 0, opType |-> 0, didSuffix |-> <<>>,
     operationJSON |-> <<>>]
DecodePayload(hexData) ==
    LET data == HexDecode(hexData)
        version == ReadByte(NewDecoder(data.bytes))
        opType == ReadByte(version.d)
        suffixLen == readVarint(opType.d)
        didSuffix == ReadBytes(suffixLen.d, suffixLen.v)
        jsonLen == readVarint(didSuffix.d)
        operationJSON == ReadBytes(jsonLen.d, jsonLen.v)
    IN IF data.err \/ operationJSON.d.err THEN NoPayload
       ELSE [err |-> FALSE, version |-> version.v, opType |-> opType.v,
             didSuffix |-> didSuffix.v, operationJSON |-> operationJSON.v]

\* ------------------------------------------------ codec round trips
\* n bytes of value v.
Blob(n, v) == [i \in 1 .. n |-> v]

\* Well-formed reveals: every width is the one KeySizes gives, and the
\* siblings are as many as merkleDepth says.
CompactReveal(index, keyType, merkleDepth) ==
    [index |-> index, keyType |-> keyType,
     publicKey |-> Blob(KeySizes[keyType].PubKey, 10 + keyType),
     merkleDepth |-> merkleDepth,
     merkleSiblings |-> [i \in 1 .. merkleDepth |-> Blob(HashLen, 20 + i)],
     signature |-> Blob(KeySizes[keyType].Sig, 30 + index)]
\* Well-formed patches: one list, the one its type names.
CompactPatch(type, items) ==
    [type |-> type,
     publicKeys |-> IF type = 1 THEN items ELSE <<>>,
     keyIDs |-> IF type = 2 THEN items ELSE <<>>,
     services |-> IF type = 3 THEN items ELSE <<>>,
     serviceIDs |-> IF type = 4 THEN items ELSE <<>>]
CompactPatches ==
    {CompactPatch(1, <<>>), CompactPatch(2, <<>>),
     CompactPatch(1, <<[id |-> <<107>>, keyType |-> 2,
                        keyBytes |-> Blob(KeySizes[2].PubKey, 40), purposes |-> 1]>>),
     CompactPatch(2, <<<<107>>, <<>>>>),
     CompactPatch(3, <<[id |-> <<97, 112, 105>>, type |-> <<65>>,
                        endpoint |-> <<104, 116>>]>>),
     CompactPatch(4, <<<<97, 112, 105>>>>)}
CompactDeltas ==
    {[patches |-> <<>>]} \cup {[patches |-> <<p>>] : p \in CompactPatches}
        \cup {[patches |-> <<CompactPatch(4, <<<<97>>>>), p>>] : p \in CompactPatches}

\* Well-formed UPDATEs in the three modes the flags name: a single key, a
\* threshold of controllers, and a threshold of BLS controllers with the
\* aggregated signature.
CompactUpdate(flags, reveals, delta, aggregatedSigKey) ==
    [header |-> [version |-> PayloadVersionCompact, operation |-> 2, flags |-> flags],
     didSuffix |-> Blob(HashLen, 50),
     reveals |-> reveals,
     newCommitment |-> Blob(HashLen, 60),
     delta |-> delta,
     aggregatedSigKey |-> aggregatedSigKey]
ThresholdRevealLists(keyTypes) ==
    UNION {[1 .. n -> {CompactReveal(index, k, depth) :
                          index \in 0 .. 1, k \in keyTypes, depth \in 0 .. 1}] :
              n \in 1 .. MaxReveals}
CompactUpdates ==
    {CompactUpdate(0, <<CompactReveal(0, k, 0)>>, delta, <<>>) :
        k \in DOMAIN KeySizes, delta \in CompactDeltas}
    \cup {CompactUpdate(FlagThreshold, reveals, delta, <<>>) :
        reveals \in ThresholdRevealLists({0, 3}), delta \in CompactDeltas}
    \cup {CompactUpdate(FlagThreshold + FlagBLSAggregated, reveals, delta,
                        Blob(KeySizes[3].Sig, 70)) :
        reveals \in ThresholdRevealLists({3}), delta \in CompactDeltas}

\* The inputs of EncodePayload: a type, a suffix and the JSON bytes.
PayloadInputs ==
    LET strings == UNION {[1 .. n -> {65, 200}] : n \in 0 .. 2}
    IN {[opType |-> t, didSuffix |-> s, operationJSON |-> j] :
           t \in 1 .. 4, s \in strings, j \in strings \cup {Blob(130, 123)}}

InitCodec ==
    /\ Init!1 /\ Init!2 /\ Init!3 /\ Init!4 /\ Init!5 /\ Init!6 /\ Init!7
    /\ wire \in {[fn |-> "DecodeUpdate", in |-> u, out |-> <<>>] : u \in CompactUpdates}
            \cup {[fn |-> "DecodePayload", in |-> x, out |-> <<>>] : x \in PayloadInputs}

\* decode(encode(op)); a refused encoding is NoUpdate as well.
RoundTripUpdate ==
    /\ wire.fn = "DecodeUpdate"
    /\ wire.out = <<>>
    /\ LET encoded == EncodeUpdate(wire.in)
       IN wire' = [wire EXCEPT !.out = <<IF encoded.err THEN NoUpdate
                                         ELSE DecodeUpdate(encoded.bytes)>>]
    /\ UNCHANGED <<log, omit, store, loop, result, keyFile, call>>

RoundTripPayload ==
    /\ wire.fn = "DecodePayload"
    /\ wire.out = <<>>
    /\ wire' = [wire EXCEPT !.out =
                   <<DecodePayload(EncodePayload(wire.in.opType, wire.in.didSuffix,
                                                 wire.in.operationJSON))>>]
    /\ UNCHANGED <<log, omit, store, loop, result, keyFile, call>>

NextCodec == RoundTripUpdate \/ RoundTripPayload

SpecCodec == InitCodec /\ [][NextCodec]_vars

\* ------------------------------------------------ ballots decided late
\* A ballot that had no decision when sync asked for it (the log holds
\* NotFound at its number) is decided while no sync is running.
DecideLate ==
    /\ Idle("P")
    /\ \E b \in 0 .. Len(log) - 1, decided \in Rolls \ {NotFound} :
          /\ ~log[b + 1].found
          /\ log' = [log EXCEPT ![b + 1] = decided]
    /\ UNCHANGED <<omit, store, loop, result, keyFile, call, wire>>

\* One processor that syncs, resuming from its cursor each time, over a log
\* whose ballots may be decided after sync has passed them.
NextLate ==
    \/ Resume("P")
    \/ ProcessStep("P")
    \/ DecideLate

SpecLate == Init /\ [][NextLate]_vars

\* ------------------------------------------------------- replay, two DIDs
\* Two DID suffixes whose operations share one ballot log.
FrameDIDs == {<<"d1">>, <<"d2">>}

\* What a decided ballot may hold when two DIDs are in play: the operations
\* the helpers author for either DID, and bytes that are no DID payload.
FrameRolls ==
    {Garbage}
    \cup {AuthoredCreate(s, 1, 2) : s \in FrameDIDs}
    \cup {AuthoredUpdate(s, 1, 3, <<Svc("s1")>>) : s \in FrameDIDs}
    \cup {AuthoredRecover(s, 2, 1, 2, <<Key("key-3")>>) : s \in FrameDIDs}
    \cup {AuthoredDeactivate(s, 2) : s \in FrameDIDs}

\* An iteration of the sync loop over that log; one store call may fail.
FrameStep(p) ==
    /\ ~Idle(p)
    /\ \E decided \in (IF loop[p].next < Len(log) THEN {log[loop[p].next + 1]}
                       ELSE FrameRolls),
          fault \in {"none", "SaveOperation"} :
          Iteration(p, TRUE, decided, fault)

NextFrame ==
    \/ Resume("P")
    \/ FrameStep("P")

SpecFrame == Init /\ [][NextFrame]_vars

\* GetDID: the row of did, if there is one.
RecordOf(dids, did) == IF DIDExists(dids, did) THEN <<dids[did]>> ELSE <<>>
\* GetOperations: the rows of did.
LogEntriesOf(ops, did) == {o \in ops : o.did = did}

\* ============================================================== properties
\* Shorthands over the state of one processor.
DidsOf(p) == store[p].dids
OpsOf(p) == store[p].ops
Cursor(p) == store[p].synced
HasEntry(p, b) == \E o \in OpsOf(p) : o.ballotNumber = b
\* The store of p reflects whole ballots only: its last iteration succeeded
\* and moved the cursor to that ballot.
AfterBallot(p) == result[p].err = "nil" /\ result[p].ballot = Cursor(p)
\* The roll decided for ballot b is a DID operation.
IsOperation(roll) == roll.found /\ roll.decodes /\ roll.opType \in 1 .. 4
\* The hash of a reveal value equals a commitment.
RevealHashesTo(revealValue, commitment) ==
    /\ revealValue[1] = "b64"
    /\ B64(Hash(revealValue[2])) = commitment

\* What one uninterrupted replay of the decided ballots b .. last from the
\* store st leaves behind: ballots in order, stopping at the first error.
RECURSIVE ReplayFrom(_, _, _)
ReplayFrom(st, b, last) ==
    IF b > last THEN st
    ELSE LET out == ProcessRoll(st, log[b + 1], b, "none") IN
         IF out.err # "nil" THEN [st EXCEPT !.dids = out.dids, !.ops = out.ops]
         ELSE ReplayFrom([dids |-> out.dids, ops |-> out.ops, synced |-> b],
                         b + 1, last)
ReplayOnce(last) == ReplayFrom(EmptyStore, 0, last)

C2_RerunIdempotent ==
    Idle("P") =>
        \E last \in Cursor("P") .. (Len(log) - 1) :
            /\ DidsOf("P") = ReplayOnce(last).dids
            /\ OpsOf("P") = ReplayOnce(last).ops

\* C3: a decoder error or a validator failure on a ballot does not stop
\* replay: the cursor has moved past the ballot that raised it.
C3_InvalidNeverFatal ==
    result["P"].err \in (ValidationErrors \cup DecodeErrors)
        => Cursor("P") >= result["P"].ballot

\* C4: a replay step is all or nothing: every DID record's last operation has
\* its operation-log entry, and the cursor covers every logged ballot and
\* every record's last operation.
C4_StepAtomic ==
    /\ \A did \in DOMAIN DidsOf("P") :
          /\ HasEntry("P", DidsOf("P")[did].lastOperationBallot)
          /\ DidsOf("P")[did].lastOperationBallot <= Cursor("P")
    /\ \A o \in OpsOf("P") : o.ballotNumber <= Cursor("P")

\* C5: once a DID is deactivated, no step changes its stored record (document,
\* both commitments, status, ballots), whatever operation targets it.
C5_DeactivatedAbsorbs ==
    [][\A did \in DOMAIN DidsOf("P") :
          DidsOf("P")[did].status = "deactivated"
             => /\ did \in DOMAIN DidsOf("P")'
                /\ DidsOf("P")'[did] = DidsOf("P")[did]]_vars

\* A deactivated DID was targeted by a later operation that has been replayed.
C5_Witness ==
    \E did \in DOMAIN DidsOf("P"), b \in Ballots :
        /\ DidsOf("P")[did].status = "deactivated"
        /\ DidsOf("P")[did].lastOperationBallot < b
        /\ b <= Cursor("P")
        /\ IsOperation(log[b + 1])
        /\ FormatDID(log[b + 1].didSuffix) = did

\* C6: a step that ends in a validation error leaves every DID record exactly
\* as it was before that ballot.
C6_InvalidLeavesRecord ==
    [][result["P"]'.err \in ValidationErrors => DidsOf("P")' = DidsOf("P")]_vars

\* An operation against an existing, active DID has failed validation.
C6_Witness ==
    /\ result["P"].err \in ValidationErrors
    /\ \E did \in DOMAIN DidsOf("P") :
          /\ DidsOf("P")[did].status = "active"
          /\ FormatDID(log[result["P"].ballot + 1].didSuffix) = did

\* C7: an operation that fails validation still gets an operation-log entry
\* for its ballot.
C7_InvalidIsLogged ==
    result["P"].err \in ValidationErrors => HasEntry("P", result["P"].ballot)

\* C8: replaying a log that holds an operation that is not applied at some
\* ballot ends with the same DID records as replaying the log without that
\* ballot.
ReplayEnded(p) ==
    Idle(p) /\ (Cursor(p) = MaxBallot - 1 \/ result[p].err # "nil")
C8_InvalidBallotOmittable ==
    ( /\ ReplayEnded("P") /\ ReplayEnded("Q")
      /\ omit < Len(log)
      /\ IsOperation(log[omit + 1])
      /\ (Cursor("P") >= omit \/ result["P"].ballot = omit)
      /\ ~HasEntry("P", omit) )
        => DidsOf("P") = DidsOf("Q")

\* C9: a step in which an UPDATE changes the record of its DID is a step whose
\* reveal value hashes to the update commitment the record held before it.
C9_UpdateNeedsReveal ==
    [][\A sfx \in DIDs :
          LET b == loop["P"].next
              did == FormatDID(sfx)
          IN ( /\ ~Idle("P")
               /\ Len(log') > b
               /\ log'[b + 1].opType = 2
               /\ log'[b + 1].didSuffix = sfx
               /\ did \in DOMAIN DidsOf("P")
               /\ DidsOf("P")'[did] # DidsOf("P")[did] )
             => RevealHashesTo(log'[b + 1].op.revealValue,
                               DidsOf("P")[did].updateCommitment)]_vars

\* An UPDATE has been applied.
C9_Witness ==
    \E o \in OpsOf("P") : o.operationType = OperationTypeUpdate

\* C10: of two UPDATEs of one DID that reveal against the same update
\* commitment and sit in different ballots, the later one is not applied once
\* the earlier one has been.
C10_FirstBallotWins ==
    \A i, j \in Ballots :
        ( /\ i < j /\ j < Len(log)
          /\ log[i + 1].opType = 2 /\ log[j + 1].opType = 2
          /\ IsOperation(log[i + 1]) /\ IsOperation(log[j + 1])
          /\ log[i + 1].didSuffix = log[j + 1].didSuffix
          /\ log[i + 1].op.jsonOk /\ log[j + 1].op.jsonOk
          /\ log[i + 1].op.revealValue = log[j + 1].op.revealValue
          /\ HasEntry("P", i) )
            => ~HasEntry("P", j)

\* The store after the ballots b .. last have been applied one at a time in
\* ascending order, an operation that is not valid leaving the store as it is.
RECURSIVE ApplyInOrder(_, _, _)
ApplyInOrder(st, b, last) ==
    IF b > last THEN st
    ELSE LET out == ProcessRoll(st, log[b + 1], b, "none") IN
         IF out.err # "nil" THEN ApplyInOrder(st, b + 1, last)
         ELSE ApplyInOrder([dids |-> out.dids, ops |-> out.ops, synced |-> b],
                           b + 1, last)

\* C11: the record a node holds for a DID, last changed by ballot n, is the
\* record that applying the valid operations of ballots 0 .. n in ascending
\* ballot order gives.
C11_AscendingBallotOrder ==
    \A did \in DOMAIN DidsOf("P") :
        LET n == DidsOf("P")[did].lastOperationBallot
            inOrder == ApplyInOrder(EmptyStore, 0, n).dids
        IN /\ n < Len(log)
           /\ did \in DOMAIN inOrder
           /\ DidsOf("P")[did] = inOrder[did]

\* The step of P now being taken processes ballot b, whose roll is an
\* operation of type opType on the DID with suffix sfx.
Processing(b, opType, sfx) ==
    /\ ~Idle("P")
    /\ b = loop["P"].next
    /\ Len(log') > b
    /\ IsOperation(log'[b + 1])
    /\ log'[b + 1].opType = opType
    /\ log'[b + 1].didSuffix = sfx
    /\ log'[b + 1].op.jsonOk
\* That step changes what the store holds.
StoreChanges == DidsOf("P")' # DidsOf("P") \/ OpsOf("P")' # OpsOf("P")

\* C12: a step that processes an UPDATE, RECOVER or DEACTIVATE changes the
\* store only if the DID has a record and that record is active; against a
\* DID without a record the step creates none and changes nothing.
C12_OnlyActiveIsOperatedOn ==
    [][\A b \in Ballots, opType \in 2 .. 4, sfx \in DIDs :
          (Processing(b, opType, sfx) /\ StoreChanges)
             => /\ FormatDID(sfx) \in DOMAIN DidsOf("P")
                /\ DidsOf("P")[FormatDID(sfx)].status = "active"]_vars

\* An UPDATE, RECOVER or DEACTIVATE has been replayed against a store that
\* holds no DID.
C12_Witness ==
    /\ Cursor("P") >= 0
    /\ AfterBallot("P")
    /\ IsOperation(log[Cursor("P") + 1])
    /\ log[Cursor("P") + 1].opType \in 2 .. 4
    /\ DOMAIN DidsOf("P") = {}

\* C13: a step that processes a CREATE changes the store only if the DID has
\* no record; the record of an existing DID, active or deactivated, stays.
C13_CreateOnlyOnce ==
    [][\A b \in Ballots, sfx \in DIDs :
          (Processing(b, 1, sfx) /\ FormatDID(sfx) \in DOMAIN DidsOf("P"))
             => ~StoreChanges]_vars

\* A CREATE with other commitments has been replayed after the DID's record
\* was created.
C13_Witness ==
    \E did \in DOMAIN DidsOf("P"), b \in Ballots :
        /\ DidsOf("P")[did].createdAtBallot < b
        /\ b <= Cursor("P")
        /\ log[b + 1].opType = 1
        /\ IsOperation(log[b + 1])
        /\ FormatDID(log[b + 1].didSuffix) = did
        /\ log[b + 1] # log[DidsOf("P")[did].createdAtBallot + 1]

\* C14: a step in which a RECOVER or a DEACTIVATE changes the store is a step
\* whose reveal value hashes to the recovery commitment the record held.
C14_RecoveryNeedsRecoveryReveal ==
    [][\A b \in Ballots, opType \in 3 .. 4, sfx \in DIDs :
          (Processing(b, opType, sfx) /\ StoreChanges)
             => /\ FormatDID(sfx) \in DOMAIN DidsOf("P")
                /\ RevealHashesTo(log'[b + 1].op.revealValue,
                      DidsOf("P")[FormatDID(sfx)].recoveryCommitment)]_vars

\* A RECOVER or DEACTIVATE whose reveal hashes to the update commitment, not
\* to the recovery commitment, has been replayed and refused.
C14_Witness ==
    /\ result["P"].err = "reveal value does not match recovery commitment"
    /\ LET roll == log[result["P"].ballot + 1]
           did == FormatDID(roll.didSuffix)
       IN /\ roll.opType \in 3 .. 4
          /\ did \in DOMAIN DidsOf("P")
          /\ RevealHashesTo(roll.op.revealValue, DidsOf("P")[did].updateCommitment)
          /\ DidsOf("P")[did].status = "active"

\* The key carried in the signed data hashes to the reveal value.
KeyHashesTo(k, revealValue) == B64(Hash(k)) = revealValue

\* C15: a step in which an UPDATE, RECOVER or DEACTIVATE changes the store is
\* a step whose carried public key hashes to its reveal value.
C15_KeyBoundToReveal ==
    [][\A b \in Ballots, opType \in 2 .. 4, sfx \in DIDs :
          (Processing(b, opType, sfx) /\ StoreChanges)
             => KeyHashesTo(log'[b + 1].op.signedData.payload.key,
                            log'[b + 1].op.revealValue)]_vars

\* An operation whose reveal matched the commitment but whose carried key was
\* another one (signed by that other key) has been replayed and refused.
C15_Witness ==
    /\ result["P"].err \in {"update key does not match reveal",
                            "recovery key does not match reveal"}
    /\ LET op == log[result["P"].ballot + 1].op
       IN /\ op.signedData.signer = op.signedData.payload.key
          /\ ~KeyHashesTo(op.signedData.payload.key, op.revealValue)

\* C16: a step in which an UPDATE changes the store is a step whose signed
\* data was signed by the revealed key and names the hash of the delta the
\* operation carries.
C16_SignatureCoversDelta ==
    [][\A b \in Ballots, sfx \in DIDs :
          (Processing(b, 2, sfx) /\ StoreChanges)
             => LET op == log'[b + 1].op IN
                /\ op.signedData.signer = op.signedData.payload.key
                /\ KeyHashesTo(op.signedData.payload.key, op.revealValue)
                /\ op.signedData.payload.deltaHash = <<"dh", op.delta>>]_vars

\* An UPDATE whose delta was changed after signing has been replayed and
\* refused.
C16_Witness ==
    /\ result["P"].err = "delta hash mismatch"
    /\ LET op == log[result["P"].ballot + 1].op
       IN op.signedData.payload.deltaHash # <<"dh", op.delta>>

\* C17: a step in which an UPDATE changes the store leaves the record with
\* the update commitment the operation carries and with the recovery
\* commitment it had.
C17_UpdateRotatesUpdateCommitmentOnly ==
    [][\A b \in Ballots, sfx \in DIDs :
          (Processing(b, 2, sfx) /\ StoreChanges)
             => LET did == FormatDID(sfx) IN
                /\ did \in DOMAIN DidsOf("P") /\ did \in DOMAIN DidsOf("P")'
                /\ DidsOf("P")'[did].updateCommitment
                      = log'[b + 1].op.delta.updateCommitment
                /\ DidsOf("P")'[did].recoveryCommitment
                      = DidsOf("P")[did].recoveryCommitment]_vars

\* An UPDATE that carries a new commitment was the last operation applied to
\* a DID.
C17_Witness ==
    \E did \in DOMAIN DidsOf("P"), o \in OpsOf("P"), c \in OpsOf("P") :
        /\ o.did = did /\ c.did = did
        /\ o.operationType = OperationTypeUpdate
        /\ c.operationType = OperationTypeCreate
        /\ o.ballotNumber = DidsOf("P")[did].lastOperationBallot
        /\ o.operationData.delta.updateCommitment # c.operationData.updateCommitment
        /\ DidsOf("P")[did].updateCommitment = o.operationData.delta.updateCommitment

\* The items the patches of a delta add under one action, in order.
RECURSIVE ItemsAdded(_, _)
ItemsAdded(patches, action) ==
    IF patches = <<>> THEN <<>>
    ELSE (IF Head(patches).action = action THEN <<Head(patches).item>> ELSE <<>>)
         \o ItemsAdded(Tail(patches), action)

\* C18: a step in which a RECOVER changes the store leaves a document that
\* holds exactly the keys and services the recovery delta adds.
C18_RecoverReplacesDocument ==
    [][\A b \in Ballots, sfx \in DIDs :
          (Processing(b, 3, sfx) /\ StoreChanges)
             => LET did == FormatDID(sfx)
                    patches == log'[b + 1].op.delta.patches
                IN /\ did \in DOMAIN DidsOf("P")'
                   /\ DidsOf("P")'[did].document.id = did
                   /\ DidsOf("P")'[did].document.publicKeys
                         = ItemsAdded(patches, "add-public-keys")
                   /\ DidsOf("P")'[did].document.services
                         = ItemsAdded(patches, "add-services")
                   /\ DidsOf("P")'[did].document.authentication = <<>>]_vars

\* A RECOVER was the last operation applied to a DID whose document held a
\* key, and a service, that the recovery delta does not add.
C18_Witness ==
    \E did \in DOMAIN DidsOf("P"), o \in OpsOf("P"), u \in OpsOf("P") :
        /\ o.did = did /\ u.did = did
        /\ o.operationType = OperationTypeRecover
        /\ o.ballotNumber = DidsOf("P")[did].lastOperationBallot
        /\ u.operationType = OperationTypeUpdate
        /\ u.ballotNumber < o.ballotNumber
        /\ ItemsAdded(u.operationData.delta.patches, "add-services") # <<>>
        /\ DidsOf("P")[did].document.services = <<>>

\* C19: a step in which a DEACTIVATE changes the store is a step whose signed
\* data names the DID being deactivated, by its suffix or in full.
C19_DeactivateNamesDID ==
    [][\A b \in Ballots, sfx \in DIDs :
          (Processing(b, 4, sfx) /\ StoreChanges)
             => log'[b + 1].op.signedData.payload.didSuffix
                   \in {sfx, FormatDID(sfx)}]_vars

\* A DEACTIVATE by the recovery key whose signed data names another DID has
\* been replayed and refused; the DID is still active.
C19_Witness ==
    /\ result["P"].err = "DID suffix mismatch in signed data"
    /\ LET roll == log[result["P"].ballot + 1]
       IN /\ roll.op.signedData.payload.didSuffix
                \notin {roll.didSuffix, FormatDID(roll.didSuffix)}
          /\ DidsOf("P")[FormatDID(roll.didSuffix)].status = "active"

\* C20: an iteration whose ballot read fails changes nothing in the store,
\* cursor included, and ends the run; the run that follows a failed read
\* starts at the ballot whose read failed.
C20_ReadErrorAbortsStep ==
    [][/\ (~Idle("P") /\ result["P"]'.err = RPCError)
             => /\ store["P"]' = store["P"]
                /\ Idle("P")'
                /\ result["P"]'.ballot = loop["P"].next
                /\ Cursor("P")' < result["P"]'.ballot
       /\ (Idle("P") /\ ~Idle("P")' /\ result["P"].err = RPCError)
             => loop["P"]'.next = result["P"].ballot]_vars

\* After some ballots were synced, the read of the next ballot failed and the
\* run ended there.
C20_Witness ==
    /\ result["P"].err = RPCError
    /\ Idle("P")
    /\ Cursor("P") >= 0
    /\ result["P"].ballot = Cursor("P") + 1
    /\ OpsOf("P") # {}

\* C21: a reader of the store never sees a partial commit: every DID record
\* that reflects ballot n (its last operation) comes with the operation-log
\* entry of that DID for ballot n.
C21_NoPartialCommitVisible ==
    \A did \in DOMAIN DidsOf("P") :
        \E o \in OpsOf("P") :
            /\ o.did = did
            /\ o.ballotNumber = DidsOf("P")[did].lastOperationBallot

\* C22: the operation log never holds two entries with the same ballot
\* number, also when a ballot is processed more than once.
C22_OneEntryPerBallot ==
    \A o1, o2 \in OpsOf("P") :
        o1.ballotNumber = o2.ballotNumber => o1 = o2

\* A ballot that already has its entry was processed again by a rerun, and
\* the second insert was refused.
C22_Witness ==
    /\ result["P"].err = StoreError
    /\ HasEntry("P", result["P"].ballot)
    /\ Cursor("P") >= result["P"].ballot

\* No two positions of seq hold the same id.
Distinct(seq) ==
    \A i, j \in 1 .. Len(seq) : seq[i] = seq[j] => i = j

\* C27: in every DID document of the store, key ids are pairwise distinct
\* and service ids are pairwise distinct.
C27_DocumentIdsUnique ==
    \A did \in DOMAIN DidsOf("P") :
        /\ Distinct(DidsOf("P")[did].document.publicKeys)
        /\ Distinct(DidsOf("P")[did].document.services)

\* C23: while an operation that rotates the update key is submitted and not
\* yet confirmed, the key file on disk already holds the freshly generated
\* next key.
C23_NextKeyPersistedBeforeSubmit ==
    \A p \in Procs :
        call[p].pc = "submitted"
            => keyFile[p].updateKey = call[p].newUpdateKey

\* C24: the step that follows the decision of the submitted ballot changes
\* the client's local state (store or key file) only if the payload decided
\* in that ballot is the payload the client submitted.
C24_LocalStateOnlyForOwnPayload ==
    [][\A p \in Procs :
          (/\ call[p].pc = "submitted"
           /\ (keyFile'[p] # keyFile[p] \/ store'[p] # store[p]))
             => log[call[p].ballot + 1] = call[p].roll]_vars

CreateOf(p, did) == log[DidsOf(p)[did].createdAtBallot + 1].op

\* C26: the suffix under which a record is stored is the hash of the initial
\* state of the CREATE that made it (taken, as CreateDID takes it, with or
\* without the DID written into the document).
C26_SuffixSelfCertifying ==
    \A did \in DOMAIN DidsOf("P") :
        ParseDID(did) \in
            {GenerateDIDSuffix(CreateOf("P", did)),
             GenerateDIDSuffix([CreateOf("P", did)
                                   EXCEPT !.initialDocument.id = <<>>])}

\* The payload of the ballot is empty, or decodes to another version.
Skippable(roll) ==
    /\ roll.found
    /\ \/ roll.hex \in {"none", "short", "envelope"}
       \/ roll.decodes /\ roll.version # PayloadVersion

RECURSIVE Varint(_)
Varint(n) == IF n < 128 THEN <<n>> ELSE <<128 + (n % 128)>> \o Varint(n \div 128)
SlotEnvelope(payload) == <<0, 0, Len(payload)>> \o payload
VoteEnvelope(ballotNumber, payload) ==
    <<0>> \o Varint(ballotNumber) \o <<Len(payload)>> \o payload
\* Ballot numbers whose varint is one byte, two bytes, three bytes.
EnvelopeBallots == {0, 1, 128, 255, 16384}
\* The payloads data may end with.
Tails(data) == {SubSeq(data, n + 1, Len(data)) : n \in 0 .. Len(data)}

\* C29: stripWrappers removes either envelope and returns exactly the payload
\* inside; data that does not open like an envelope (no leading 0x00, fewer
\* than three bytes, no hex) comes back unchanged; the call always returns.
C29_StripWrappers ==
    (wire.fn = "stripWrappers" /\ wire.out # Pending) =>
        LET data == wire.in.bytes IN
        /\ wire.out # SlicePanic
        /\ wire.in.hex = "ok" =>
              \A payload \in Tails(data) :
                  /\ data = SlotEnvelope(payload) => wire.out.bytes = payload
                  /\ \A b \in EnvelopeBallots :
                        data = VoteEnvelope(b, payload)
                            => wire.out.bytes = payload
        /\ (wire.in.hex # "ok" \/ Len(data) < 3 \/ data[1] # 0)
              => wire.out = wire.in

\* Two reveals of the sequence claim the same controller index.
DuplicatedIndex(reveals) ==
    \E i, j \in 1 .. Len(reveals) : i # j /\ reveals[i].index = reveals[j].index

\* C30: a threshold UPDATE whose reveals contain a duplicated controller
\* index never validates, also when every reveal is valid on its own.
C30_DuplicateIndexNeverValidates ==
    (wire.fn = "processThresholdUpdate" /\ wire.out # "pending")
        => (DuplicatedIndex(wire.in.reveals) => wire.out # "nil")

\* Two reveals with the same index, each valid on its own (enough to meet the
\* threshold if both were counted), were rejected for the duplicate.
C30_Witness ==
    /\ wire.fn = "processThresholdUpdate"
    /\ wire.out = "duplicate controller index"
    /\ Len(wire.in.reveals) = UpdateThreshold
    /\ \A i \in 1 .. Len(wire.in.reveals) :
          /\ wire.in.reveals[i].index = 0
          /\ RevealCounts(wire.in.reveals[i], ThresholdRecord.updateCommitment,
                          DeltaHash(wire.in.delta))

\* C31: Merkle soundness.  Against the real root, the proof for position i
\* with the true siblings verifies; a proof with a flipped sibling, a
\* proof of leaf i under another index in [0, N), and a proof whose index
\* is at or beyond N are all rejected.
C31_MerkleSoundness ==
    (wire.fn = "verifyMerkleProof" /\ wire.out # <<>>) =>
        LET x == wire.in
            N == Len(MerkleKeys)
            accepted == wire.out[1]
        IN /\ (x.leafAt < N /\ x.pathAt = x.leafAt /\ x.flipAt = 0
                  /\ x.proof.index = x.leafAt) => accepted
           /\ x.flipAt # 0 => ~accepted
           /\ (x.leafAt < N /\ x.pathAt = x.leafAt /\ x.proof.index < N
                  /\ x.proof.index # x.leafAt) => ~accepted
           /\ x.proof.index >= N => ~accepted

\* C32: codec round trip.  For every well-formed operation, decoding its
\* encoding succeeds and returns the operation: DecodeUpdate of EncodeUpdate
\* for the compact format, DecodePayload of EncodePayload for the JSON one.
C32_CodecRoundTrip ==
    /\ (wire.fn = "DecodeUpdate" /\ wire.out # <<>>) =>
          (~wire.out[1].err /\ wire.out[1].op = wire.in)
    /\ (wire.fn = "DecodePayload" /\ wire.out # <<>>) =>
          /\ ~wire.out[1].err
          /\ wire.out[1].version = PayloadVersion
          /\ wire.out[1].opType = wire.in.opType
          /\ wire.out[1].didSuffix = wire.in.didSuffix
          /\ wire.out[1].operationJSON = wire.in.operationJSON

\* C33: a reveal value is accepted once.  No two UPDATE entries of the
\* operation log, for one DID and from different ballots, come from payloads
\* with the same reveal value; in particular the same signed UPDATE decided
\* in two ballots is applied at most once.
C33_RevealAcceptedOnce ==
    \A o1, o2 \in OpsOf("P") :
        ( /\ o1.operationType = OperationTypeUpdate
          /\ o2.operationType = OperationTypeUpdate
          /\ o1.did = o2.did
          /\ o1.ballotNumber < o2.ballotNumber )
            => log[o1.ballotNumber + 1].op.revealValue
                   # log[o2.ballotNumber + 1].op.revealValue

\* The ballot b holds the first CREATE of its DID: an operation that is valid
\* whatever the store holds when it is applied.
FirstCreate(b) ==
    /\ b < Len(log)
    /\ IsOperation(log[b + 1]) /\ log[b + 1].opType = 1
    /\ log[b + 1].op.jsonOk
    /\ \A a \in 0 .. b - 1 : log[a + 1].didSuffix # log[b + 1].didSuffix

\* C34: no decided ballot is lost.  When a sync that was started with ballot
\* b already decided returns without error, the operation of every such
\* ballot up to the cursor has been applied, also when b was undecided at the
\* time an earlier sync processed its number.
C34_LateBallotNotLost ==
    [][ ( /\ ~Idle("P") /\ loop'["P"].remaining = 0
          /\ result'["P"].err = "nil" )
          => \A b \in Ballots :
                (FirstCreate(b) /\ b <= store'["P"].synced)
                    => DIDExists(store'["P"].dids, FormatDID(log[b + 1].didSuffix)) ]_vars

\* C35: for every DID record, last_operation_ballot never decreases from one
\* state of the store to the next and is never below created_at_ballot.
C35_LastOperationBallotMonotonic ==
    [][ \A did \in DOMAIN DidsOf("P")' :
           /\ DidsOf("P")'[did].lastOperationBallot
                 >= DidsOf("P")'[did].createdAtBallot
           /\ did \in DOMAIN DidsOf("P") =>
                 DidsOf("P")'[did].lastOperationBallot
                     >= DidsOf("P")[did].lastOperationBallot ]_vars

\* C36: whenever the operation log holds an entry for ballot n, the persisted
\* replay cursor last_synced_ballot is at least n.
C36_CursorCoversLog ==
    \A o \in OpsOf("P") : Cursor("P") >= o.ballotNumber

\* C37: every DID record has its "create" entry.  Once the cursor has
\* reached the ballot a record was created at (the ballot completed, at the
\* first attempt or when it was processed again after a failed write), the
\* operation log holds a create entry for that DID at that ballot.
C37_RecordHasCreateEntry ==
    \A did \in DOMAIN DidsOf("P") :
        DidsOf("P")[did].createdAtBallot <= Cursor("P")
            => \E o \in OpsOf("P") :
                  /\ o.did = did
                  /\ o.operationType = OperationTypeCreate
                  /\ o.ballotNumber = DidsOf("P")[did].createdAtBallot

\* C38: when UpdateDID returns without an error, the update key the key file
\* then holds is the key whose reveal value matches the update commitment the
\* store holds for that DID.
C38_KeyFileMatchesStoreAfterUpdate ==
    [][\A p \in Procs :
          (/\ call[p].pc = "submitted"
           /\ call'[p].pc = "idle"
           /\ keyFile'[p].updateKey = call[p].newUpdateKey)
             => /\ DIDExists(store'[p].dids, keyFile'[p].did)
                /\ VerifyReveal(RevealOf(keyFile'[p].updateKey),
                                store'[p].dids[keyFile'[p].did]
                                    .updateCommitment)]_vars

\* C39: replaying a ballot changes only the DID its payload names: for every
\* other DID the record and the log entries are the same after the step as
\* before it.
C39_ReplayTouchesOnlyNamedDID ==
    [][\A p \in Procs : \A s \in FrameDIDs :
          LET did == FormatDID(s) IN
          (\/ RecordOf(DidsOf(p)', did) # RecordOf(DidsOf(p), did)
           \/ LogEntriesOf(OpsOf(p)', did) # LogEntriesOf(OpsOf(p), did))
             => /\ ~Idle(p)
                /\ log'[loop[p].next + 1].didSuffix = s]_vars

\* An UPDATE of one DID was replayed while the store held the other DID too.
C39_Witness ==
    \E s \in FrameDIDs, t \in FrameDIDs :
        /\ s # t
        /\ DIDExists(DidsOf("P"), FormatDID(s))
        /\ DIDExists(DidsOf("P"), FormatDID(t))
        /\ \E o \in OpsOf("P") :
              /\ o.did = FormatDID(t)
              /\ o.operationType = OperationTypeUpdate
              /\ o.ballotNumber > DidsOf("P")[FormatDID(s)].createdAtBallot

\* C40: stripWrappers returns, without a runtime failure, on every ballot
\* payload ProcessBallot hands it (more than 8 hex characters, that is more
\* than 4 bytes), also when the CompactSize marker 0xfd, 0xfe or 0xff
\* announces more length bytes than the payload holds.
C40_StrippingNeverFails ==
    (/\ wire.fn = "stripWrappers"
     /\ wire.out # Pending
     /\ Len(wire.in.bytes) > 4)
        => wire.out.hex # SlicePanic.hex

====
